---- MODULE Spec2Model ----
(***************************************************************************)
(* Notification orchestration engine of boss-app (functions-python).       *)
(*                                                                         *)
(* Spec         : generate_emails_in_parallel /                            *)
(*                generate_chat_messages_in_parallel: sub-batches, the     *)
(*                worker pool of _generate_batch, the chunked writer and   *)
(*                the per-chunk counter update, against a document store   *)
(*                whose commits may fail.                                  *)
(* SpecClassify : determine_user_category applied to one user record.      *)
(* SpecTiming   : should_send_notification applied to one user record.     *)
(* SpecFilter   : STEP 2 of process_notification_orchestration, the loop   *)
(*                that classifies and filters all_users.                   *)
(* SpecRun      : process_notification_orchestration as a whole: the       *)
(*                unsubscribe sync, the user listing, STEP 2, the email    *)
(*                step, the push step and the statistics.                  *)
(* SpecThreads  : one chunk of _write_chat_messages_batch: the pre-scan    *)
(*                of threads and the operations of the batch.              *)
(* SpecEngine   : SpecRun interleaved with send_onboarding_welcome_email.  *)
(* SpecRuns     : one user followed through successive scheduled runs.     *)
(***************************************************************************)
EXTENDS Integers, Sequences, FiniteSets, TLC

\* ------------------------------------------------------------------ bounds
\* Longest task list handed to generate_*_in_parallel.
MaxTasks == 3
\* Largest max_workers explored.
MaxWorkers == 2
\* Chunk sizes of the two writers, scaled down from 500 (email) and 250 (chat)
\* so that a task list of MaxTasks items spans several chunks.
EMAIL_CHUNK_SIZE == 1
CHAT_CHUNK_SIZE == 1

\* ------------------------------------------------------------------ values
None == "None"
\* An absent timestamp (last_notification_at = None).
NoTime == -1

Users == 1..MaxTasks

Min(a, b) == IF a <= b THEN a ELSE b

Range(s) == {s[k] : k \in 1..Len(s)}

\* s[:k] of Python
Take(s, k) == SubSeq(s, 1, Min(k, Len(s)))

PREVIEW_LEN == 50

EmailCategories == {"EMAIL_ONLY_USER", "NEW_USER_EMAIL", "ACTIVE_USER_EMAIL", "INACTIVE_USER_EMAIL"}
PushCategories == {"NEW_USER_PUSH", "ACTIVE_USER_PUSH"}
UserCategory == EmailCategories \cup PushCategories

\* ------------------------------------------------------------------ state
VARIABLES
    channel,            \* "email" or "chat": which generator this run drives
    user_tasks,         \* the task list (UserEmailTask / UserChatTask records)
    batch_size,
    max_workers,
    pc,                 \* position of the driver thread
    batch_idx,          \* 1-based index of the current sub-batch
    unit,               \* per user: "pending", "queued", "running", "done"
    successful_items,   \* _generate_batch: list of (task, data) of this sub-batch
    failed_generations, \* _generate_batch: list of failure records of this sub-batch
    chunk_idx,          \* 1-based index of the current chunk of the write call
    all_results,        \* writer: results of the chunks committed so far
    all_successful,
    all_failed,
    result,             \* BatchGenerationResult, or None before the return
    emails,             \* store: users/{u}/emails documents
    chat_messages,      \* store: users/{u}/chatThreads/{t}/messages documents
    chat_threads,       \* store: users/{u}/chatThreads/{t} documents
    notification_state, \* store: users/{u}.notification_state
    clock,              \* server time, one tick per store commit attempt
    next_id,            \* source of auto-generated document ids
    outcome,            \* history: how each user's unit ended
    write_log,          \* history: every commit the writer attempted
    generation_calls,   \* history: calls of the generation collaborator, per user
    cl_pc,              \* classifier: "idle", "call", "done"
    user_data,          \* classifier: the user document handed to it
    thread_read,        \* classifier: what reading chatThreads/main gives
    cl_now,             \* classifier: the current time, in hours
    cl_result,          \* classifier: what determine_user_category did
    category,           \* timing: the category handed to should_send_notification
    notification_state_dict, \* timing: the user document's notification_state
    send_result,        \* timing: what should_send_notification did
    tm_pc,              \* timing: "idle", "call", "done"
    drv_pc,             \* driver: the step process_notification_orchestration is at
    drv_idx,            \* driver: users of all_users processed so far
    total_users,        \* driver: len(all_users)
    user_email,         \* driver: the current user's email field
    email_tasks,        \* driver: list of UserEmailTask
    push_tasks,         \* driver: list of UserChatTask
    skipped_timing,
    skipped_no_channel,
    sync_status,        \* run: "none", "ok" or "failed" (STEP 0)
    email_unsubscribed, \* store: users whose email_unsubscribed flag STEP 0 set
    email_result,       \* run: what the email step gave
    push_result,        \* run: what the push step gave
    stats,              \* run: the statistics returned
    raised_by,          \* run: the step whose exception ended the run
    elapsed,            \* run: minutes since start_time
    slow_execution_alerted, \* run: the flag of check_execution_time
    alerts,             \* history: slow-execution alerts emitted
    wr_pc,              \* chat writer, one chunk: "idle", "chunk", "committed", "failed"
    wr_chunk,           \* chat writer: the chunk of prepared messages
    wr_exists,          \* chat writer: the (user, thread) keys the pre-scan found
    wr_ops,             \* chat writer: the operations put into the batch
    onboarding,         \* welcome trigger: "none", "sent" or "raised"
    notified            \* history: one user's notifications over successive runs

pipeVars == <<channel, user_tasks, batch_size, max_workers, pc, batch_idx, unit,
              successful_items, failed_generations, chunk_idx, all_results,
              all_successful, all_failed, result, emails, chat_messages,
              chat_threads, notification_state, clock, next_id, outcome, write_log,
              generation_calls>>

classVars == <<cl_pc, user_data, thread_read, cl_now, cl_result>>

driverVars == <<category, notification_state_dict, send_result, tm_pc, drv_pc, drv_idx,
                total_users, user_email, email_tasks, push_tasks, skipped_timing,
                skipped_no_channel>>

runVars == <<sync_status, email_unsubscribed, email_result, push_result, stats, raised_by>>

timeVars == <<elapsed, slow_execution_alerted, alerts>>

writerVars == <<wr_pc, wr_chunk, wr_exists, wr_ops>>

triggerVars == <<onboarding>>

historyVars == <<notified>>

vars == <<pipeVars, classVars, driverVars, runVars, timeVars, writerVars, triggerVars,
         historyVars>>

\* ------------------------------------------------------------------ inputs
UserEmailTask(u, s) == [user_id |-> u, user_email |-> <<"addr", u>>, scenario |-> s]

\* The driver passes thread_id = None; the API also takes an explicit thread.
TaskThreadId(u) == IF u % 2 = 1 THEN None ELSE "side"

UserChatTask(u, s) ==
    [user_id |-> u, fcm_token |-> <<"token", u>>, scenario |-> s, thread_id |-> TaskThreadId(u)]

MakeTask(ch, u, s) == IF ch = "email" THEN UserEmailTask(u, s) ELSE UserChatTask(u, s)

ChannelCategories(ch) == IF ch = "email" THEN EmailCategories ELSE PushCategories

\* The notification_state each user document holds before the run.
InitialNotificationState(u) ==
    [notification_count |-> (u - 1) % 3,
     last_notification_at |-> IF (u - 1) % 3 = 0 THEN NoTime ELSE 0]

ThreadIds == {"main", "side"}

NoThread == [exists |-> FALSE, messageCount |-> 0, unreadCount |-> 0,
             createdAt |-> NoTime, updatedAt |-> NoTime,
             lastMessageAt |-> NoTime, lastMessageRole |-> None]

\* Threads in the store before the run: users 1 and 2 already talk in "main".
InitialThread(u, t) ==
    IF t = "main" /\ u <= 2
    THEN [exists |-> TRUE, messageCount |-> 1, unreadCount |-> 0,
          createdAt |-> 0, updatedAt |-> 0,
          lastMessageAt |-> 0, lastMessageRole |-> "user"]
    ELSE NoThread

\* ------------------------------------------------------------------ helpers
chunk_list(items, chunk_size) ==
    [k \in 1..((Len(items) + chunk_size - 1) \div chunk_size) |->
        SubSeq(items, (k - 1) * chunk_size + 1, Min(k * chunk_size, Len(items)))]

Batches == chunk_list(user_tasks, batch_size)

BatchUsers(b) == {Batches[b][k].user_id : k \in 1..Len(Batches[b])}

\* the users of the task list, and the task of a user
TaskUsers == {user_tasks[k].user_id : k \in 1..Len(user_tasks)}

TaskOf(u) == user_tasks[CHOOSE k \in 1..Len(user_tasks) : user_tasks[k].user_id = u]

\* The external generation collaborator's answer for a user (opaque text).
EmailContent(u) == [title |-> <<"title", u>>, body |-> <<"body", u>>]
ChatContent(u) == [message |-> <<"message", u>>]

\* Scenarios the per-unit generators route to a generation function.
EmailScenarioAccepted(s) ==
    s = "EMAIL_ONLY_USER" \/ s \in {"NEW_USER_EMAIL", "ACTIVE_USER_EMAIL", "INACTIVE_USER"}

ChatScenarioAccepted(s) == s = "NEW_USER_PUSH" \/ s \in {"ACTIVE_USER_PUSH"}

\* mutant: the failure record loses the address of the task
FailedGeneration_NoAddress(task, msg) ==
    [user_id |-> task.user_id, user_email |-> <<"addr", 0>>,
     scenario |-> task.scenario, error_message |-> msg]

FailedGeneration(task, msg) ==
    [user_id |-> task.user_id, user_email |-> task.user_email,
     scenario |-> task.scenario, error_message |-> msg]

FailedChatGeneration(task, msg) ==
    [user_id |-> task.user_id, fcm_token |-> task.fcm_token,
     scenario |-> task.scenario, error_message |-> msg]

Failed(ch, task, msg) ==
    IF ch = "email" THEN FailedGeneration(task, msg) ELSE FailedChatGeneration(task, msg)

\* _generate_single_email: user_doc is what the existence read gave ("exists",
\* "absent", "raise"), llm what the collaborator did ("ok", "raise", or
\* "malformed": an answer from which the payload cannot be assembled, which
\* the catch-all of the unit turns into a failure).
GenerateSingleEmail(task, user_doc, llm, now) ==
    IF user_doc # "exists"
    THEN [ok |-> FALSE, failure |-> FailedGeneration(task, "validate")]
    ELSE IF ~EmailScenarioAccepted(task.scenario) \/ llm = "raise"
    THEN [ok |-> FALSE, failure |-> FailedGeneration(task, "generate")]
    ELSE IF llm = "malformed"
    THEN [ok |-> FALSE, failure |-> FailedGeneration(task, "unexpected")]
    ELSE [ok |-> TRUE, task |-> task,
          data |-> [to |-> task.user_email,
                    subject |-> EmailContent(task.user_id).title,
                    body_markdown |-> EmailContent(task.user_id).body,
                    state |-> "PLANNED",
                    createdAt |-> now]]

GenerateSingleChatMessage(task, user_doc, llm, now) ==
    IF user_doc # "exists"
    THEN [ok |-> FALSE, failure |-> FailedChatGeneration(task, "validate")]
    ELSE IF ~ChatScenarioAccepted(task.scenario) \/ llm = "raise"
    THEN [ok |-> FALSE, failure |-> FailedChatGeneration(task, "generate")]
    ELSE IF llm = "malformed"
    THEN [ok |-> FALSE, failure |-> FailedChatGeneration(task, "unexpected")]
    ELSE [ok |-> TRUE, task |-> task,
          data |-> [role |-> "assistant",
                    content |-> <<[type |-> "text", text |-> ChatContent(task.user_id).message]>>,
                    timestamp |-> now]]

GenerateSingle(ch, task, user_doc, llm, now) ==
    IF ch = "email" THEN GenerateSingleEmail(task, user_doc, llm, now)
    ELSE GenerateSingleChatMessage(task, user_doc, llm, now)

\* mutant: the generation function is called before the existence check
GenerationInvoked_BeforeCheck(ch, task, user_doc) ==
    IF ch = "email" THEN EmailScenarioAccepted(task.scenario)
    ELSE ChatScenarioAccepted(task.scenario)

\* whether the unit reaches one of the generate_*_notification calls: only past
\* the existence check, and only for a scenario the unit routes
GenerationInvoked(ch, task, user_doc) ==
    /\ user_doc = "exists"
    /\ IF ch = "email" THEN EmailScenarioAccepted(task.scenario)
       ELSE ChatScenarioAccepted(task.scenario)

ChunkSize(ch) == IF ch = "email" THEN EMAIL_CHUNK_SIZE ELSE CHAT_CHUNK_SIZE

\* chunks of the write call for the current sub-batch
Chunks == chunk_list(successful_items, ChunkSize(channel))

\* mutant: the counters of every item of the write call, not of the chunk
ChunkUserIds_WholeCall(chunk) ==
    [k \in 1..Len(successful_items) |-> successful_items[k].task.user_id]

\* [task.user_id for task, _ in chunk]
ChunkUserIds(chunk) == [k \in 1..Len(chunk) |-> chunk[k].task.user_id]

\* ------------------------------------------------------------------ Init
\* the store and the driver before a run over `tasks`
PipeStart(ch, tasks, bs, mw) ==
    /\ channel = ch
    /\ user_tasks = tasks
    /\ batch_size = bs
    /\ max_workers = mw
    /\ batch_idx = 1
    /\ unit = [u \in Users |-> "pending"]
    /\ successful_items = <<>>
    /\ failed_generations = <<>>
    /\ chunk_idx = 0
    /\ all_results = <<>>
    /\ all_successful = <<>>
    /\ all_failed = <<>>
    /\ result = <<>>
    /\ emails = {}
    /\ chat_messages = {}
    /\ chat_threads = [u \in Users |-> [t \in ThreadIds |-> InitialThread(u, t)]]
    /\ notification_state = [u \in Users |-> InitialNotificationState(u)]
    /\ clock = 1
    /\ next_id = 1
    /\ outcome = [u \in Users |-> "none"]
    /\ write_log = <<>>
    /\ generation_calls = [u \in Users |-> 0]

NoUserData ==
    [notificationPermissionStatus |-> None, fcmToken |-> None, email_unsubscribed |-> "missing",
     lastActivityAt |-> [kind |-> "none", t |-> 0], createdAt |-> [kind |-> "none", t |-> 0]]

ClassIdle ==
    /\ cl_pc = "idle"
    /\ user_data = NoUserData
    /\ thread_read = [kind |-> "absent", field |-> "missing", unreadCount |-> 0]
    /\ cl_now = 0
    /\ cl_result = [kind |-> "none", category |-> None]

\* NotificationState(): the defaults of the model class
NotificationStateDefaults ==
    [kind |-> "valid", notification_count |-> 0,
     last_notification_at |-> [kind |-> "none", t |-> 0]]

\* the timing check and the driver at rest
DriverIdle ==
    /\ category = None
    /\ notification_state_dict = NotificationStateDefaults
    /\ send_result = "none"
    /\ tm_pc = "idle"
    /\ drv_pc = "idle"
    /\ drv_idx = 0
    /\ total_users = 0
    /\ user_email = "missing"
    /\ email_tasks = <<>>
    /\ push_tasks = <<>>
    /\ skipped_timing = 0
    /\ skipped_no_channel = 0

\* process_notification_orchestration not running
NoResult == [kind |-> "none", success_count |-> 0, failure_count |-> 0]

NoStats ==
    [total_users |-> 0, emails_sent |-> 0, emails_failed |-> 0, pushes_sent |-> 0,
     pushes_failed |-> 0, skipped_timing |-> 0, skipped_no_channel |-> 0]

\* no run has notified the user yet
NoNotifications ==
    [runs |-> 0, sent |-> 0, last_sent_at |-> NoTime, all_counted |-> TRUE,
     counted_before |-> TRUE, category |-> None, k |-> 0, gap |-> 0, required |-> 0]

RunIdle ==
    /\ notified = NoNotifications
    /\ onboarding = "none"
    /\ wr_pc = "idle"
    /\ wr_chunk = <<>>
    /\ wr_exists = {}
    /\ wr_ops = <<>>
    /\ elapsed = 0
    /\ slow_execution_alerted = FALSE
    /\ alerts = 0
    /\ sync_status = "none"
    /\ email_unsubscribed = {}
    /\ email_result = NoResult
    /\ push_result = NoResult
    /\ stats = NoStats
    /\ raised_by = "none"

Init ==
    /\ \E ch \in {"email", "chat"}, n \in 0..MaxTasks, bs \in 1..MaxTasks, mw \in 1..MaxWorkers :
         \E s \in ChannelCategories(ch) :
            PipeStart(ch, [u \in 1..n |-> MakeTask(ch, u, s)], bs, mw)
    /\ pc = "batches"
    /\ ClassIdle
    /\ DriverIdle
    /\ RunIdle

\* ------------------------------------------------------------------ writer
GeneratedEmail(task, email_id, email_data) ==
    [user_id |-> task.user_id, email_id |-> email_id,
     user_email |-> task.user_email, subject |-> email_data.subject]

\* batch.set(email_ref, email_data) for every item of the chunk, ids from first_id on
EmailOps(chunk, first_id) ==
    [k \in 1..Len(chunk) |->
        [op |-> "set_email", user_id |-> chunk[k].task.user_id,
         id |-> first_id + k - 1, data |-> chunk[k].data]]

EmailChunkResults(chunk, first_id) ==
    [k \in 1..Len(chunk) |-> GeneratedEmail(chunk[k].task, first_id + k - 1, chunk[k].data)]

\* mutant: the task's own thread is ignored
ResolveThreadId_AlwaysMain(task) == "main"

\* task.thread_id if task.thread_id else "main"
ResolveThreadId(task) == IF task.thread_id # None THEN task.thread_id ELSE "main"

GeneratedChatMessage(task, message_id, message_data) ==
    [user_id |-> task.user_id, message_id |-> message_id,
     thread_id |-> ResolveThreadId(task),
     message_preview |-> Take(message_data.content[1].text, PREVIEW_LEN)]

\* STEP 1 of the chat writer: the (user, thread) keys of the chunk that exist
ThreadExists(chunk, threads) ==
    {key \in {<<chunk[k].task.user_id, ResolveThreadId(chunk[k].task)>> : k \in 1..Len(chunk)} :
        threads[key[1]][key[2]].exists}

\* mutant: the thread document is set for every message
ChatItemOps_CreateAlways(item, id, exists) ==
    LET t == ResolveThreadId(item.task)
        u == item.task.user_id
    IN <<[op |-> "set_thread", user_id |-> u, thread_id |-> t,
          timestamp |-> item.data.timestamp],
         [op |-> "set_message", user_id |-> u, thread_id |-> t, id |-> id, data |-> item.data],
         [op |-> "update_thread", user_id |-> u, thread_id |-> t,
          timestamp |-> item.data.timestamp]>>

\* STEP 2 of the chat writer: the operations of one item, given the keys known
\* to exist (pre-scanned, or created earlier in this batch)
ChatItemOps(item, id, exists) ==
    LET t == ResolveThreadId(item.task)
        u == item.task.user_id
        create == IF <<u, t>> \in exists THEN <<>>
                  ELSE <<[op |-> "set_thread", user_id |-> u, thread_id |-> t,
                          timestamp |-> item.data.timestamp]>>
    IN create \o
       <<[op |-> "set_message", user_id |-> u, thread_id |-> t, id |-> id, data |-> item.data],
         [op |-> "update_thread", user_id |-> u, thread_id |-> t,
          timestamp |-> item.data.timestamp]>>

RECURSIVE ChatOps(_, _, _, _)
ChatOps(chunk, k, first_id, exists) ==
    IF k > Len(chunk) THEN <<>>
    ELSE ChatItemOps(chunk[k], first_id + k - 1, exists)
         \o ChatOps(chunk, k + 1, first_id,
                    exists \cup {<<chunk[k].task.user_id, ResolveThreadId(chunk[k].task)>>})

ChatChunkResults(chunk, first_id) ==
    [k \in 1..Len(chunk) |-> GeneratedChatMessage(chunk[k].task, first_id + k - 1, chunk[k].data)]

\* the store's effect of one committed operation on the thread documents
ApplyThreadOp(threads, o) ==
    IF o.op = "set_thread"
    THEN [threads EXCEPT ![o.user_id][o.thread_id] =
            [exists |-> TRUE, messageCount |-> 0, unreadCount |-> 0,
             createdAt |-> o.timestamp, updatedAt |-> o.timestamp,
             lastMessageAt |-> NoTime, lastMessageRole |-> None]]
    ELSE IF o.op = "update_thread"
    THEN [threads EXCEPT ![o.user_id][o.thread_id] =
            [@ EXCEPT !.updatedAt = o.timestamp,
                      !.messageCount = @ + 1,
                      !.unreadCount = @ + 1,
                      !.lastMessageAt = o.timestamp,
                      !.lastMessageRole = "assistant"]]
    ELSE threads

RECURSIVE ApplyThreadOps(_, _, _)
ApplyThreadOps(threads, ops, k) ==
    IF k > Len(ops) THEN threads
    ELSE ApplyThreadOps(ApplyThreadOp(threads, ops[k]), ops, k + 1)

\* the documents a committed batch creates, stamped with the commit time
EmailDocs(ops, now) ==
    {[user_id |-> ops[k].user_id, id |-> ops[k].id, data |-> ops[k].data, update_time |-> now] :
        k \in {j \in 1..Len(ops) : ops[j].op = "set_email"}}

MessageDocs(ops, now) ==
    {[user_id |-> ops[k].user_id, thread_id |-> ops[k].thread_id, id |-> ops[k].id,
      data |-> ops[k].data, update_time |-> now] :
        k \in {j \in 1..Len(ops) : ops[j].op = "set_message"}}

\* an update of a thread document that does not exist makes the commit fail
RECURSIVE OpsCommittable(_, _, _)
OpsCommittable(threads, ops, k) ==
    IF k > Len(ops) THEN TRUE
    ELSE /\ ops[k].op = "update_thread" => threads[ops[k].user_id][ops[k].thread_id].exists
         /\ OpsCommittable(ApplyThreadOp(threads, ops[k]), ops, k + 1)

\* mutant: the count is set to 1 instead of incremented
CountersAfter_SetOne(state, user_ids, now) ==
    [u \in DOMAIN state |->
        IF u \in Range(user_ids)
        THEN [notification_count |-> 1, last_notification_at |-> now]
        ELSE state[u]]

\* _update_notification_counters_for_chunk's batch, applied:
\* last_notification_at = now, notification_count = Increment(1), per update
CountersAfter(state, user_ids, now) ==
    [u \in DOMAIN state |->
        LET hits == Cardinality({k \in 1..Len(user_ids) : user_ids[k] = u})
        IN IF hits = 0 THEN state[u]
           ELSE [notification_count |-> state[u].notification_count + hits,
                 last_notification_at |-> now]]

\* "Batch write failed, marking all as failed"
WriteFailures(ch, items) == [k \in 1..Len(items) |-> Failed(ch, items[k].task, "write")]

CurrentChunk == Chunks[chunk_idx]

ContentOps(ch, chunk, first_id, threads) ==
    IF ch = "email" THEN EmailOps(chunk, first_id)
    ELSE ChatOps(chunk, 1, first_id, ThreadExists(chunk, threads))

ChunkResults(ch, chunk, first_id) ==
    IF ch = "email" THEN EmailChunkResults(chunk, first_id) ELSE ChatChunkResults(chunk, first_id)

LogEntry(op, user_ids, ok) ==
    [op |-> op, batch |-> batch_idx, chunk |-> chunk_idx,
     users |-> Range(user_ids), ok |-> ok, time |-> clock]

\* ------------------------------------------------------------------ actions
\* generate_*_in_parallel: take the next sub-batch and submit all its tasks
StartBatch ==
    /\ pc = "batches"
    /\ batch_idx <= Len(Batches)
    /\ unit' = [u \in Users |-> IF u \in BatchUsers(batch_idx) THEN "queued" ELSE unit[u]]
    /\ successful_items' = <<>>
    /\ failed_generations' = <<>>
    /\ pc' = "generate"
    /\ UNCHANGED <<historyVars, triggerVars, writerVars, timeVars, classVars, driverVars, runVars, generation_calls, channel, user_tasks, batch_size, max_workers, batch_idx, chunk_idx,
                   all_results, all_successful, all_failed, result, emails, chat_messages,
                   chat_threads, notification_state, clock, next_id, outcome, write_log>>

\* mutant: a pool without a worker limit
StartUnit_Unbounded(u) ==
    /\ pc = "generate"
    /\ unit[u] = "queued"
    /\ \A v \in Users : v < u => unit[v] # "queued"
    /\ unit' = [unit EXCEPT ![u] = "running"]
    /\ UNCHANGED <<historyVars, triggerVars, writerVars, timeVars, classVars, driverVars, runVars, generation_calls, channel, user_tasks, batch_size, max_workers, pc, batch_idx,
                   successful_items, failed_generations, chunk_idx, all_results,
                   all_successful, all_failed, result, emails, chat_messages,
                   chat_threads, notification_state, clock, next_id, outcome, write_log>>

\* a pool worker takes the oldest queued task
StartUnit(u) ==
    /\ pc = "generate"
    /\ unit[u] = "queued"
    /\ \A v \in Users : v < u => unit[v] # "queued"
    /\ Cardinality({v \in Users : unit[v] = "running"}) < max_workers
    /\ unit' = [unit EXCEPT ![u] = "running"]
    /\ UNCHANGED <<historyVars, triggerVars, writerVars, timeVars, classVars, driverVars, runVars, generation_calls, channel, user_tasks, batch_size, max_workers, pc, batch_idx,
                   successful_items, failed_generations, chunk_idx, all_results,
                   all_successful, all_failed, result, emails, chat_messages,
                   chat_threads, notification_state, clock, next_id, outcome, write_log>>

\* the unit returns and the as_completed loop routes its result
CompleteUnit(u) ==
    /\ pc = "generate"
    /\ unit[u] = "running"
    /\ \E user_doc \in {"exists", "absent", "raise"}, llm \in {"ok", "raise", "malformed"} :
        LET r == GenerateSingle(channel, TaskOf(u), user_doc, llm, clock)
        IN /\ generation_calls' =
                IF GenerationInvoked(channel, TaskOf(u), user_doc)
                THEN [generation_calls EXCEPT ![u] = @ + 1]
                ELSE generation_calls
           /\ IF r.ok
              THEN /\ successful_items' = Append(successful_items, [task |-> r.task, data |-> r.data])
                   /\ failed_generations' = failed_generations
                   /\ outcome' = [outcome EXCEPT ![u] = "ok"]
              ELSE /\ failed_generations' = Append(failed_generations, r.failure)
                   /\ successful_items' = successful_items
                   /\ outcome' = [outcome EXCEPT ![u] = r.failure.error_message]
    /\ unit' = [unit EXCEPT ![u] = "done"]
    /\ UNCHANGED <<historyVars, triggerVars, writerVars, timeVars, classVars, driverVars, runVars, channel, user_tasks, batch_size, max_workers, pc, batch_idx, chunk_idx,
                   all_results, all_successful, all_failed, result, emails, chat_messages,
                   chat_threads, notification_state, clock, next_id, write_log>>

\* mutant: a future that raises is skipped without a failure record
UnitRaises_Dropped(u) ==
    /\ pc = "generate"
    /\ unit[u] = "running"
    /\ outcome' = [outcome EXCEPT ![u] = "future"]
    /\ unit' = [unit EXCEPT ![u] = "done"]
    /\ UNCHANGED <<historyVars, triggerVars, writerVars, timeVars, classVars, driverVars, runVars, generation_calls, channel, user_tasks, batch_size, max_workers, pc, batch_idx,
                   successful_items, failed_generations, chunk_idx, all_results,
                   all_successful, all_failed, result, emails, chat_messages, chat_threads,
                   notification_state, clock, next_id, write_log>>

\* future.result() raises: the loop's own except records the failure
UnitRaises(u) ==
    /\ pc = "generate"
    /\ unit[u] = "running"
    /\ failed_generations' = Append(failed_generations, Failed(channel, TaskOf(u), "future"))
    /\ outcome' = [outcome EXCEPT ![u] = "future"]
    /\ unit' = [unit EXCEPT ![u] = "done"]
    /\ UNCHANGED <<historyVars, triggerVars, writerVars, timeVars, classVars, driverVars, runVars, generation_calls, channel, user_tasks, batch_size, max_workers, pc, batch_idx,
                   successful_items, chunk_idx, all_results, all_successful, all_failed,
                   result, emails, chat_messages, chat_threads, notification_state,
                   clock, next_id, write_log>>

\* mutant: the write call starts as soon as one future is collected
JoinBatch_Early ==
    /\ pc = "generate"
    /\ \E u \in BatchUsers(batch_idx) : unit[u] = "done"
    /\ successful_items # <<>>
    /\ pc' = "write"
    /\ chunk_idx' = 1
    /\ all_results' = <<>>
    /\ UNCHANGED <<historyVars, triggerVars, writerVars, timeVars, classVars, driverVars, runVars, generation_calls, channel, user_tasks, batch_size, max_workers, unit, successful_items,
                   failed_generations, all_successful, result, emails, chat_messages,
                   chat_threads, notification_state, clock, next_id, outcome, write_log,
                   batch_idx, all_failed>>

\* the executor is left with every future collected; the write call starts
\* when something was generated
JoinBatch ==
    /\ pc = "generate"
    /\ \A u \in BatchUsers(batch_idx) : unit[u] = "done"
    /\ IF successful_items # <<>>
       THEN /\ pc' = "write"
            /\ chunk_idx' = 1
            /\ all_results' = <<>>
            /\ UNCHANGED <<batch_idx, all_failed>>
       ELSE /\ all_failed' = all_failed \o failed_generations
            /\ batch_idx' = batch_idx + 1
            /\ pc' = "batches"
            /\ UNCHANGED <<chunk_idx, all_results>>
    /\ UNCHANGED <<historyVars, triggerVars, writerVars, timeVars, classVars, driverVars, runVars, generation_calls, channel, user_tasks, batch_size, max_workers, unit, successful_items,
                   failed_generations, all_successful, result, emails, chat_messages,
                   chat_threads, notification_state, clock, next_id, outcome, write_log>>

\* the chunk's content batch commits
CommitChunk ==
    /\ pc = "write"
    /\ LET ops == ContentOps(channel, CurrentChunk, next_id, chat_threads)
       IN /\ OpsCommittable(chat_threads, ops, 1)
          /\ emails' = emails \cup EmailDocs(ops, clock)
          /\ chat_messages' = chat_messages \cup MessageDocs(ops, clock)
          /\ chat_threads' = ApplyThreadOps(chat_threads, ops, 1)
    /\ all_results' = all_results \o ChunkResults(channel, CurrentChunk, next_id)
    /\ next_id' = next_id + Len(CurrentChunk)
    /\ write_log' = Append(write_log, LogEntry("content", ChunkUserIds(CurrentChunk), TRUE))
    /\ clock' = clock + 1
    /\ pc' = "counters"
    /\ UNCHANGED <<historyVars, triggerVars, writerVars, timeVars, classVars, driverVars, runVars, generation_calls, channel, user_tasks, batch_size, max_workers, batch_idx, unit,
                   successful_items, failed_generations, chunk_idx, all_successful,
                   all_failed, result, notification_state, outcome>>

\* mutant: the failed commit is logged and swallowed, the write call returns
\* what it committed so far and nothing is marked as failed
CommitChunkFails_Swallowed ==
    /\ pc = "write"
    /\ write_log' = Append(write_log, LogEntry("content", ChunkUserIds(CurrentChunk), FALSE))
    /\ next_id' = next_id + Len(CurrentChunk)
    /\ clock' = clock + 1
    /\ all_successful' = all_successful \o all_results
    /\ all_failed' = all_failed \o failed_generations
    /\ batch_idx' = batch_idx + 1
    /\ pc' = "batches"
    /\ UNCHANGED <<historyVars, triggerVars, writerVars, timeVars, classVars, driverVars, runVars, generation_calls, channel, user_tasks, batch_size, max_workers, unit,
                   successful_items, failed_generations, chunk_idx, all_results, result,
                   emails, chat_messages, chat_threads, notification_state, outcome>>

\* mutant: the failed chunk is written again
CommitChunkFails_Retried ==
    /\ pc = "write"
    /\ Len(write_log) < 2 * MaxTasks
    /\ write_log' = Append(write_log, LogEntry("content", ChunkUserIds(CurrentChunk), FALSE))
    /\ clock' = clock + 1
    /\ UNCHANGED <<historyVars, triggerVars, writerVars, timeVars, classVars, driverVars, runVars, generation_calls, channel, user_tasks, batch_size,
                   max_workers, pc, batch_idx, unit, successful_items, failed_generations,
                   chunk_idx, all_results, all_successful, all_failed, result, emails,
                   chat_messages, chat_threads, notification_state, next_id, outcome>>

\* the chunk's content batch fails to commit: the writer re-raises and
\* generate_*_in_parallel marks every item of the write call as failed
CommitChunkFails ==
    /\ pc = "write"
    /\ write_log' = Append(write_log, LogEntry("content", ChunkUserIds(CurrentChunk), FALSE))
    /\ next_id' = next_id + Len(CurrentChunk)
    /\ clock' = clock + 1
    /\ all_failed' = all_failed \o WriteFailures(channel, successful_items) \o failed_generations
    /\ batch_idx' = batch_idx + 1
    /\ pc' = "batches"
    /\ UNCHANGED <<historyVars, triggerVars, writerVars, timeVars, classVars, driverVars, runVars, generation_calls, channel, user_tasks, batch_size, max_workers, unit, successful_items,
                   failed_generations, chunk_idx, all_results, all_successful, result,
                   emails, chat_messages, chat_threads, notification_state, outcome>>

\* after the counter update: the next chunk, or the return of the write call
AfterCounters ==
    IF chunk_idx < Len(Chunks)
    THEN /\ chunk_idx' = chunk_idx + 1
         /\ pc' = "write"
         /\ UNCHANGED <<batch_idx, all_successful, all_failed>>
    ELSE /\ all_successful' = all_successful \o all_results
         /\ all_failed' = all_failed \o failed_generations
         /\ batch_idx' = batch_idx + 1
         /\ pc' = "batches"
         /\ UNCHANGED chunk_idx

\* mutant: the counter update of a chunk is left for later
UpdateCounters_Deferred ==
    /\ pc = "counters"
    /\ AfterCounters
    /\ UNCHANGED <<historyVars, triggerVars, writerVars, timeVars, classVars, driverVars, runVars, generation_calls, channel, user_tasks, batch_size, max_workers, unit, successful_items,
                   failed_generations, all_results, result, emails, chat_messages,
                   chat_threads, notification_state, next_id, outcome, write_log, clock>>

\* _update_notification_counters_for_chunk, its batch committing
UpdateCounters ==
    /\ pc = "counters"
    /\ notification_state' = CountersAfter(notification_state, ChunkUserIds(CurrentChunk), clock)
    /\ write_log' = Append(write_log, LogEntry("counters", ChunkUserIds(CurrentChunk), TRUE))
    /\ clock' = clock + 1
    /\ AfterCounters
    /\ UNCHANGED <<historyVars, triggerVars, writerVars, timeVars, classVars, driverVars, runVars, generation_calls, channel, user_tasks, batch_size, max_workers, unit, successful_items,
                   failed_generations, all_results, result, emails, chat_messages,
                   chat_threads, next_id, outcome>>

\* _update_notification_counters_for_chunk, its batch failing: logged, not raised
UpdateCountersFails ==
    /\ pc = "counters"
    /\ write_log' = Append(write_log, LogEntry("counters", ChunkUserIds(CurrentChunk), FALSE))
    /\ clock' = clock + 1
    /\ AfterCounters
    /\ UNCHANGED <<historyVars, triggerVars, writerVars, timeVars, classVars, driverVars, runVars, generation_calls, channel, user_tasks, batch_size, max_workers, unit, successful_items,
                   failed_generations, all_results, result, emails, chat_messages,
                   chat_threads, notification_state, next_id, outcome>>

BatchGenerationResult(successful, failed, tasks) ==
    [successful |-> successful, failed |-> failed, total_count |-> Len(tasks),
     success_count |-> Len(successful), failure_count |-> Len(failed)]

\* every sub-batch is done: build and return the result
Return ==
    /\ pc = "batches"
    /\ batch_idx > Len(Batches)
    /\ result' = BatchGenerationResult(all_successful, all_failed, user_tasks)
    /\ pc' = "done"
    /\ UNCHANGED <<historyVars, triggerVars, writerVars, timeVars, classVars, driverVars, runVars, generation_calls, channel, user_tasks, batch_size, max_workers, batch_idx, unit,
                   successful_items, failed_generations, chunk_idx, all_results,
                   all_successful, all_failed, emails, chat_messages, chat_threads,
                   notification_state, clock, next_id, outcome, write_log>>

Next ==
    \/ StartBatch
    \/ \E u \in Users : StartUnit(u)
    \/ \E u \in Users : CompleteUnit(u)
    \/ \E u \in Users : UnitRaises(u)
    \/ JoinBatch
    \/ CommitChunk
    \/ CommitChunkFails
    \/ UpdateCounters
    \/ UpdateCountersFails
    \/ Return

Spec == Init /\ [][Next]_vars


\* ------------------------------------------------------------------ classifier
\* Times are whole hours. A timestamp field of a user document is
\*   [kind |-> "none"]     absent, None or ""
\*   [kind |-> "invalid"]  a value fromisoformat rejects (ValueError) or a non-string
\*   [kind |-> "naive"]    an ISO string without a UTC offset
\*   [kind |-> "aware"]    an ISO string with an offset (or 'Z'), at hour t
INACTIVE_DAYS == 10
NEW_USER_DAYS == 14

\* bool(x) of a field read with .get()
Truthy(x) == x \notin {None, "", "False", "missing"}

\* is_inactive: "True", "False", or "raise" when the subtraction of a naive
\* datetime from the aware now raises TypeError, which the except does not name
is_inactive(ud, days, now) ==
    LET ts == ud.lastActivityAt
    IN IF ts.kind = "none" THEN "False"
       ELSE IF ts.kind = "invalid" THEN "False"
       ELSE IF ts.kind = "naive" THEN "raise"
       ELSE IF now - ts.t > days * 24 THEN "True" ELSE "False"

is_new_user(ud, days, now) ==
    LET ts == ud.createdAt
    IN IF ts.kind = "none" THEN "False"
       ELSE IF ts.kind = "invalid" THEN "False"
       ELSE IF ts.kind = "naive" THEN "raise"
       ELSE IF now - ts.t <= days * 24 THEN "True" ELSE "False"

\* get_unread_count. The read of chatThreads/main gives
\*   "raise"    the read fails                      -> 0
\*   "absent"   no such document                    -> 0
\*   "empty"    a document without data             -> 0
\*   "valid"    a document ChatThread accepts       -> its unreadCount
\*   "invalid"  a document ChatThread rejects       -> the raw unreadCount field:
\*              field "int" its number, "missing" the default 0, "none" None
get_unread_count(read) ==
    IF read.kind \in {"raise", "absent", "empty"} THEN [kind |-> "int", n |-> 0]
    ELSE IF read.kind = "valid" THEN [kind |-> "int", n |-> read.unreadCount]
    ELSE IF read.field = "none" THEN [kind |-> "none", n |-> 0]
    ELSE IF read.field = "missing" THEN [kind |-> "int", n |-> 0]
    ELSE [kind |-> "int", n |-> read.unreadCount]

Returns(c) == [kind |-> "return", category |-> c]
Raises == [kind |-> "raise", category |-> None]

has_push(ud) == ud.notificationPermissionStatus = "granted" /\ Truthy(ud.fcmToken)
\* mutant: the unsubscribe flag is ignored
has_email_Always(ud) == TRUE

has_email(ud) == ~Truthy(ud.email_unsubscribed)

\* priorities 3 to 5 of determine_user_category
CategoryByActivity(ud, now) ==
    IF ud.lastActivityAt.kind = "none"
    THEN IF has_email(ud) THEN Returns("EMAIL_ONLY_USER") ELSE Returns("NEW_USER_PUSH")
    ELSE LET new == is_new_user(ud, NEW_USER_DAYS, now)
         IN IF new = "raise" THEN Raises
            ELSE IF new = "True"
            THEN IF has_push(ud) THEN Returns("NEW_USER_PUSH") ELSE Returns("NEW_USER_EMAIL")
            ELSE IF has_push(ud) THEN Returns("ACTIVE_USER_PUSH") ELSE Returns("ACTIVE_USER_EMAIL")

determine_user_category(ud, read, now) ==
    IF ~has_push(ud) /\ ~has_email(ud) THEN Returns(None)
    ELSE LET unread_count == get_unread_count(read)
         IN IF unread_count.kind # "int" THEN Raises
            ELSE IF unread_count.n > 0
            THEN LET inactive == is_inactive(ud, INACTIVE_DAYS, now)
                 IN IF inactive = "raise" THEN Raises
                    ELSE IF inactive = "True"
                    THEN IF has_email(ud) THEN Returns("INACTIVE_USER_EMAIL") ELSE Returns(None)
                    ELSE CategoryByActivity(ud, now)
            ELSE CategoryByActivity(ud, now)

\* the pipeline at rest, for the specifications that do not run it
PipeIdle ==
    /\ PipeStart("email", <<>>, 1, 1)
    /\ pc = "idle"

\* the hour at which the classifier runs
ClassifyHour == 1000

\* ages, in hours, of the timestamps tried: around the 10-day and 14-day thresholds
AgeChoices == {0, 6 * 24 + 1, 10 * 24, 10 * 24 + 1, 14 * 24, 14 * 24 + 1}

TimestampChoices(now) ==
    {[kind |-> k, t |-> 0] : k \in {"none", "invalid"}}
    \cup {[kind |-> "aware", t |-> now - a] : a \in AgeChoices}
    \cup {[kind |-> "naive", t |-> now - a] : a \in {0, 14 * 24 + 1}}

ThreadReadChoices ==
    {[kind |-> k, field |-> "missing", unreadCount |-> 0] : k \in {"raise", "absent", "empty"}}
    \cup {[kind |-> "valid", field |-> "int", unreadCount |-> n] : n \in {0, 1, 5}}
    \cup {[kind |-> "invalid", field |-> "int", unreadCount |-> n] : n \in {0, 2}}
    \cup {[kind |-> "invalid", field |-> f, unreadCount |-> 0] : f \in {"missing", "none"}}

InitClassify ==
    /\ PipeIdle
    /\ DriverIdle
    /\ RunIdle
    /\ cl_pc = "call"
    /\ cl_now = ClassifyHour
    /\ user_data \in
         [notificationPermissionStatus : {"granted", "denied", None},
          fcmToken : {"valid_token", "", None},
          email_unsubscribed : {"True", "False", "missing"},
          lastActivityAt : TimestampChoices(ClassifyHour),
          createdAt : TimestampChoices(ClassifyHour)]
    /\ thread_read \in ThreadReadChoices
    /\ cl_result = [kind |-> "none", category |-> None]

Classify ==
    /\ cl_pc = "call"
    /\ cl_result' = determine_user_category(user_data, thread_read, cl_now)
    /\ cl_pc' = "done"
    /\ UNCHANGED <<historyVars, triggerVars, writerVars, timeVars, pipeVars, runVars, driverVars, user_data, thread_read, cl_now>>

NextClassify == Classify

SpecClassify == InitClassify /\ [][NextClassify]_vars


\* ------------------------------------------------------------------ timing
\* mutant: every category on the push schedule
CATEGORY_INTERVALS_AllPush ==
    [c \in UserCategory |-> <<1, 3, 6, 24, 3 * 24>>]

\* CATEGORY_INTERVALS, in hours
CATEGORY_INTERVALS ==
    [c \in UserCategory |->
        CASE c = "EMAIL_ONLY_USER"     -> <<1, 6, 24, 48, 7 * 24>>
          [] c = "NEW_USER_PUSH"       -> <<1, 3, 6, 24, 3 * 24>>
          [] c = "NEW_USER_EMAIL"      -> <<1, 6, 24, 48, 7 * 24>>
          [] c = "ACTIVE_USER_PUSH"    -> <<1, 3, 6, 24, 3 * 24>>
          [] c = "ACTIVE_USER_EMAIL"   -> <<1, 6, 24, 48, 7 * 24>>
          [] c = "INACTIVE_USER_EMAIL" -> <<1, 24, 48, 7 * 24, 14 * 24>>]

\* NotificationState(**notification_state_dict), the defaults when it is rejected
ParsedNotificationState(nsd) ==
    IF nsd.kind = "valid" THEN nsd ELSE NotificationStateDefaults

\* now - datetime.fromisoformat(ts) >= interval: fromisoformat is not guarded
\* here, so an unparseable value (ValueError) and a value without an offset
\* (TypeError in the subtraction) both raise
ElapsedAtLeast(ts, interval, now) ==
    IF ts.kind \in {"invalid", "naive"} THEN "raise"
    ELSE IF now - ts.t >= interval THEN "True" ELSE "False"

\* mutant: without last_notification_at the time since registration is used
should_send_notification_FallsBack(ud, nsd, cat, now) ==
    LET ns == ParsedNotificationState(nsd)
        intervals == CATEGORY_INTERVALS[cat]
        interval == intervals[Min(ns.notification_count, Len(intervals) - 1) + 1]
        since == IF ns.notification_count = 0 \/ ns.last_notification_at.kind = "none"
                 THEN ud.createdAt ELSE ns.last_notification_at
    IN IF since.kind = "none" THEN "False" ELSE ElapsedAtLeast(since, interval, now)

\* should_send_notification: "True", "False" or "raise"
\* a timing check that always waits the first interval only
should_send_notification_FirstInterval(ud, nsd, cat, now) ==
    LET ns == ParsedNotificationState(nsd)
        intervals == CATEGORY_INTERVALS[cat]
    IN IF ns.notification_count = 0
       THEN IF ud.createdAt.kind = "none" THEN "False"
            ELSE ElapsedAtLeast(ud.createdAt, intervals[1], now)
       ELSE IF ns.last_notification_at.kind = "none" THEN "False"
            ELSE ElapsedAtLeast(ns.last_notification_at, intervals[1], now)

should_send_notification(ud, nsd, cat, now) ==
    LET ns == ParsedNotificationState(nsd)
        intervals == CATEGORY_INTERVALS[cat]
    IN IF ns.notification_count = 0
       THEN IF ud.createdAt.kind = "none" THEN "False"
            ELSE ElapsedAtLeast(ud.createdAt, intervals[1], now)
       ELSE IF ns.last_notification_at.kind = "none" THEN "False"
            ELSE ElapsedAtLeast(ns.last_notification_at,
                                intervals[Min(ns.notification_count, Len(intervals) - 1) + 1],
                                now)

\* elapsed hours tried: around every interval of every schedule
ElapsedChoices ==
    {0, 1, 2, 3, 4, 5, 6, 7, 11, 12, 13, 23, 24, 25, 47, 48, 49, 71, 72, 73,
     167, 168, 169, 192, 335, 336, 337}

MaxCount == 8

TimingTimestamps(now, ages) ==
    {[kind |-> k, t |-> 0] : k \in {"none", "invalid"}}
    \cup {[kind |-> "aware", t |-> now - a] : a \in ages}
    \cup {[kind |-> "naive", t |-> now - a] : a \in {49, 30 * 24}}

NotificationStateChoices(now) ==
    {[kind |-> "invalid", notification_count |-> 3,
      last_notification_at |-> [kind |-> "none", t |-> 0]]}
    \cup [kind : {"valid"}, notification_count : 0..MaxCount,
          last_notification_at : TimingTimestamps(now, ElapsedChoices)]

InitTiming ==
    /\ PipeIdle
    /\ RunIdle
    /\ cl_pc = "idle"
    /\ cl_now = ClassifyHour
    /\ thread_read = [kind |-> "absent", field |-> "missing", unreadCount |-> 0]
    /\ cl_result = [kind |-> "none", category |-> None]
    /\ \E created \in TimingTimestamps(ClassifyHour, {0, 1, 2, 30 * 24}) :
          user_data = [NoUserData EXCEPT !.createdAt = created]
    /\ category \in UserCategory
    /\ notification_state_dict \in NotificationStateChoices(ClassifyHour)
    /\ send_result = "none"
    /\ tm_pc = "call"
    /\ drv_pc = "idle"
    /\ drv_idx = 0
    /\ total_users = 0
    /\ user_email = "missing"
    /\ email_tasks = <<>>
    /\ push_tasks = <<>>
    /\ skipped_timing = 0
    /\ skipped_no_channel = 0

ShouldSend ==
    /\ tm_pc = "call"
    /\ send_result' = should_send_notification(user_data, notification_state_dict,
                                               category, cl_now)
    /\ tm_pc' = "done"
    /\ UNCHANGED <<historyVars, triggerVars, writerVars, timeVars, pipeVars, runVars, classVars, category, notification_state_dict, drv_pc, drv_idx,
                   total_users, user_email, email_tasks, push_tasks, skipped_timing,
                   skipped_no_channel>>

NextTiming == ShouldSend

SpecTiming == InitTiming /\ [][NextTiming]_vars

\* ------------------------------------------------------------------ driver
\* STEP 2 of process_notification_orchestration: the loop over all_users
MaxUsers == 2

\* the user documents the loop meets: channel fields, activity and registration
ChannelFields ==
    {[notificationPermissionStatus |-> "granted", fcmToken |-> "valid_token",
      email_unsubscribed |-> "False"],
     [notificationPermissionStatus |-> "granted", fcmToken |-> "valid_token",
      email_unsubscribed |-> "True"],
     [notificationPermissionStatus |-> "granted", fcmToken |-> " ",
      email_unsubscribed |-> "True"],
     [notificationPermissionStatus |-> "denied", fcmToken |-> "valid_token",
      email_unsubscribed |-> "False"],
     [notificationPermissionStatus |-> "denied", fcmToken |-> "valid_token",
      email_unsubscribed |-> "True"],
     [notificationPermissionStatus |-> "granted", fcmToken |-> None,
      email_unsubscribed |-> "True"]}

\* lastActivityAt and createdAt of the documents tried
ActivityFields(now) ==
    {[lastActivityAt |-> [kind |-> "none", t |-> 0],
      createdAt |-> [kind |-> "aware", t |-> now - 30 * 24]],
     [lastActivityAt |-> [kind |-> "aware", t |-> now - 1],
      createdAt |-> [kind |-> "aware", t |-> now]],
     [lastActivityAt |-> [kind |-> "aware", t |-> now - 1],
      createdAt |-> [kind |-> "aware", t |-> now - 30 * 24]],
     [lastActivityAt |-> [kind |-> "aware", t |-> now - (INACTIVE_DAYS * 24 + 1)],
      createdAt |-> [kind |-> "aware", t |-> now - 30 * 24]],
     [lastActivityAt |-> [kind |-> "naive", t |-> now - 30 * 24],
      createdAt |-> [kind |-> "aware", t |-> now - 30 * 24]],
     [lastActivityAt |-> [kind |-> "aware", t |-> now - 1],
      createdAt |-> [kind |-> "invalid", t |-> 0]]}

DriverUserRecords(now) ==
    {[notificationPermissionStatus |-> c.notificationPermissionStatus,
      fcmToken |-> c.fcmToken,
      email_unsubscribed |-> c.email_unsubscribed,
      lastActivityAt |-> a.lastActivityAt,
      createdAt |-> a.createdAt] : c \in ChannelFields, a \in ActivityFields(now)}

\* what surrounds the user document: the thread read, notification_state and
\* user_data.get('email', '') ("addr", "blank", "missing", or "none" for None)
DriverSurroundings ==
    {[read |-> [kind |-> "valid", field |-> "int", unreadCount |-> n],
      nsd |-> NotificationStateDefaults, em |-> "addr"] : n \in {0, 5}}
    \cup {[read |-> [kind |-> "valid", field |-> "int", unreadCount |-> 0],
           nsd |-> [kind |-> "valid", notification_count |-> 1,
                    last_notification_at |-> [kind |-> "none", t |-> 0]],
           em |-> "addr"]}
    \cup {[read |-> [kind |-> "absent", field |-> "missing", unreadCount |-> 0],
           nsd |-> NotificationStateDefaults, em |-> e] : e \in {"blank", "missing", "none"}}

\* what one pass of the loop body does with a user:
\* "raise", "no_channel", "timing", "email" or "push"
\* a loop body that forgets to count the users the timing rule holds back
FilterOutcome_TimingUncounted(ud, cat, send, em) ==
    IF cat.kind = "raise" THEN "raise"
    ELSE IF cat.category = None THEN "no_channel"
    ELSE IF send = "raise" THEN "raise"
    ELSE IF send = "False" THEN "held"
    ELSE IF cat.category \in EmailCategories
    THEN (IF em = "none" THEN "raise"
          ELSE IF em = "addr" THEN "email" ELSE "no_channel")
    ELSE (IF ud.fcmToken = "valid_token" THEN "push" ELSE "no_channel")

FilterOutcome(ud, cat, send, em) ==
    IF cat.kind = "raise" THEN "raise"
    ELSE IF cat.category = None THEN "no_channel"
    ELSE IF send = "raise" THEN "raise"
    ELSE IF send = "False" THEN "timing"
    ELSE IF cat.category \in EmailCategories
    THEN (IF em = "none" THEN "raise"
          ELSE IF em = "addr" THEN "email" ELSE "no_channel")
    ELSE (IF ud.fcmToken = "valid_token" THEN "push" ELSE "no_channel")

InitFilter ==
    /\ PipeIdle
    /\ RunIdle
    /\ cl_pc = "idle"
    /\ cl_now = ClassifyHour
    /\ user_data = NoUserData
    /\ thread_read = [kind |-> "absent", field |-> "missing", unreadCount |-> 0]
    /\ cl_result = [kind |-> "none", category |-> None]
    /\ category = None
    /\ notification_state_dict = NotificationStateDefaults
    /\ send_result = "none"
    /\ tm_pc = "idle"
    /\ drv_pc = "filter"
    /\ drv_idx = 0
    /\ total_users \in 0..MaxUsers
    /\ user_email = "missing"
    /\ email_tasks = <<>>
    /\ push_tasks = <<>>
    /\ skipped_timing = 0
    /\ skipped_no_channel = 0

\* the body of one iteration, for the user document ud and its surroundings sur
\* a loop body that gives an email user a task on both channels
FilterStep_BothChannels(ud, sur) ==
          LET read == sur.read
              nsd == sur.nsd
              em == sur.em
              cat == determine_user_category(ud, read, cl_now)
              send == IF cat.kind = "return" /\ cat.category # None
                      THEN should_send_notification(ud, nsd, cat.category, cl_now)
                      ELSE "none"
              what == FilterOutcome(ud, cat, send, em)
              user_id == drv_idx + 1
          IN /\ user_data' = ud
             /\ thread_read' = read
             /\ notification_state_dict' = nsd
             /\ user_email' = em
             /\ cl_result' = cat
             /\ category' = cat.category
             /\ send_result' = send
             /\ drv_idx' = user_id
             /\ drv_pc' = IF what = "raise" THEN "raised" ELSE "filter"
             /\ skipped_no_channel' = skipped_no_channel + IF what = "no_channel" THEN 1 ELSE 0
             /\ skipped_timing' = skipped_timing + IF what = "timing" THEN 1 ELSE 0
             /\ email_tasks' = IF what = "email"
                               THEN Append(email_tasks, UserEmailTask(user_id, cat.category))
                               ELSE email_tasks
             /\ push_tasks' = IF what \in {"push", "email"}
                              THEN Append(push_tasks,
                                          [UserChatTask(user_id, cat.category)
                                             EXCEPT !.thread_id = None])
                              ELSE push_tasks

FilterStep(ud, sur) ==
          LET read == sur.read
              nsd == sur.nsd
              em == sur.em
              cat == determine_user_category(ud, read, cl_now)
              send == IF cat.kind = "return" /\ cat.category # None
                      THEN should_send_notification(ud, nsd, cat.category, cl_now)
                      ELSE "none"
              what == FilterOutcome(ud, cat, send, em)
              user_id == drv_idx + 1
          IN /\ user_data' = ud
             /\ thread_read' = read
             /\ notification_state_dict' = nsd
             /\ user_email' = em
             /\ cl_result' = cat
             /\ category' = cat.category
             /\ send_result' = send
             /\ drv_idx' = user_id
             /\ drv_pc' = IF what = "raise" THEN "raised" ELSE "filter"
             /\ skipped_no_channel' = skipped_no_channel + IF what = "no_channel" THEN 1 ELSE 0
             /\ skipped_timing' = skipped_timing + IF what = "timing" THEN 1 ELSE 0
             /\ email_tasks' = IF what = "email"
                               THEN Append(email_tasks, UserEmailTask(user_id, cat.category))
                               ELSE email_tasks
             /\ push_tasks' = IF what = "push"
                              THEN Append(push_tasks,
                                          [UserChatTask(user_id, cat.category)
                                             EXCEPT !.thread_id = None])
                              ELSE push_tasks

\* one iteration of `for user_id, user_data in all_users`
FilterUser ==
    /\ drv_pc = "filter"
    /\ drv_idx < total_users
    /\ \E ud \in DriverUserRecords(cl_now), sur \in DriverSurroundings : FilterStep(ud, sur)
    /\ UNCHANGED <<historyVars, triggerVars, writerVars, timeVars, pipeVars, runVars, cl_pc, cl_now, tm_pc, total_users>>

\* the soft time budget of a run, in minutes
max_duration_minutes == 20

\* what a step of the run may take, and the longest run followed, in minutes
SlowStep == 10
MaxMinutes == 30

\* mutant: the check does not look at the flag
check_execution_time_Repeats ==
    \E d \in {0, SlowStep} :
        /\ elapsed' = Min(elapsed + d, MaxMinutes)
        /\ IF elapsed' >= max_duration_minutes
           THEN /\ alerts' = alerts + 1
                /\ slow_execution_alerted' = TRUE
           ELSE UNCHANGED <<alerts, slow_execution_alerted>>

\* check_execution_time, called when a step of the run ends after d more
\* minutes: one warning and one Sentry message the first time the budget is
\* found exceeded, nothing once slow_execution_alerted is set
check_execution_time ==
    \E d \in {0, SlowStep} :
        /\ elapsed' = Min(elapsed + d, MaxMinutes)
        /\ IF ~slow_execution_alerted /\ elapsed' >= max_duration_minutes
           THEN /\ alerts' = alerts + 1
                /\ slow_execution_alerted' = TRUE
           ELSE UNCHANGED <<alerts, slow_execution_alerted>>

\* mutant: the loop is left before all_users is exhausted
FilterDone_Early ==
    /\ drv_pc = "filter"
    /\ drv_pc' = "done"
    /\ check_execution_time
    /\ UNCHANGED <<historyVars, triggerVars, writerVars, pipeVars, runVars, classVars, category, notification_state_dict, send_result, tm_pc,
                   drv_idx, total_users, user_email, email_tasks, push_tasks, skipped_timing,
                   skipped_no_channel>>

\* the loop has gone through all_users
FilterDone ==
    /\ drv_pc = "filter"
    /\ drv_idx = total_users
    /\ drv_pc' = "done"
    /\ check_execution_time
    /\ UNCHANGED <<historyVars, triggerVars, writerVars, pipeVars, runVars, classVars, category, notification_state_dict, send_result, tm_pc,
                   drv_idx, total_users, user_email, email_tasks, push_tasks, skipped_timing,
                   skipped_no_channel>>

NextFilter == FilterUser \/ FilterDone

SpecFilter == InitFilter /\ [][NextFilter]_vars

\* ------------------------------------------------------------------ run
\* process_notification_orchestration from STEP 0 to the statistics. drv_pc goes
\* through "sync", "fetch", "filter", "done" (categorization complete), "email",
\* "email_over", "push", "push_over" and ends in "returned" or "raised".
EMAIL_BATCH_SIZE == 20
EMAIL_MAX_WORKERS == 20
PUSH_BATCH_SIZE == 10
PUSH_MAX_WORKERS == 10

InitRun ==
    /\ PipeIdle
    /\ ClassIdle
    /\ DriverIdle
    /\ RunIdle

\* the entry of the function: start_time is taken
BeginRun ==
    /\ drv_pc = "idle"
    /\ drv_pc' = "sync"
    /\ cl_now' = ClassifyHour
    /\ UNCHANGED <<historyVars, triggerVars, writerVars, timeVars, pipeVars, runVars, cl_pc, user_data, thread_read, cl_result, category,
                   notification_state_dict, send_result, tm_pc, drv_idx, total_users,
                   user_email, email_tasks, push_tasks, skipped_timing, skipped_no_channel>>

\* the sets of users whose flag one sync may set
SyncChoices == {{}, {1}}

\* STEP 0, sync_mailgun_unsubscribes returning: it has set email_unsubscribed
\* on the user documents that match the provider's list
SyncUnsubscribes ==
    /\ drv_pc = "sync"
    /\ \E flagged \in SyncChoices : email_unsubscribed' = flagged
    /\ sync_status' = "ok"
    /\ drv_pc' = "fetch"
    /\ check_execution_time
    /\ UNCHANGED <<historyVars, triggerVars, writerVars, pipeVars, classVars, category, notification_state_dict, send_result, tm_pc,
                   drv_idx, total_users, user_email, email_tasks, push_tasks, skipped_timing,
                   skipped_no_channel, email_result, push_result, stats, raised_by>>

\* mutant: the failure of the sync ends the run
SyncFails_Propagates ==
    /\ drv_pc = "sync"
    /\ \E flagged \in SyncChoices : email_unsubscribed' = flagged
    /\ sync_status' = "failed"
    /\ raised_by' = "sync"
    /\ drv_pc' = "raised"
    /\ UNCHANGED <<historyVars, triggerVars, writerVars, timeVars, pipeVars, classVars, category, notification_state_dict, send_result, tm_pc,
                   drv_idx, total_users, user_email, email_tasks, push_tasks, skipped_timing,
                   skipped_no_channel, email_result, push_result, stats>>

\* STEP 0, sync_mailgun_unsubscribes raising: logged, the run goes on. The
\* flags of the update batches it committed before it failed stay set.
SyncFails ==
    /\ drv_pc = "sync"
    /\ \E flagged \in SyncChoices : email_unsubscribed' = flagged
    /\ sync_status' = "failed"
    /\ drv_pc' = "fetch"
    /\ check_execution_time
    /\ UNCHANGED <<historyVars, triggerVars, writerVars, pipeVars, classVars, category, notification_state_dict, send_result, tm_pc,
                   drv_idx, total_users, user_email, email_tasks, push_tasks, skipped_timing,
                   skipped_no_channel, email_result, push_result, stats, raised_by>>

\* STEP 1: the users collection is streamed into all_users
ListUsers ==
    /\ drv_pc = "fetch"
    /\ \E n \in 0..MaxUsers : total_users' = n
    /\ drv_pc' = "filter"
    /\ check_execution_time
    /\ UNCHANGED <<historyVars, triggerVars, writerVars, pipeVars, classVars, runVars, category, notification_state_dict, send_result,
                   tm_pc, drv_idx, user_email, email_tasks, push_tasks, skipped_timing,
                   skipped_no_channel>>

\* mutant: a failed listing is taken for an empty collection
ListUsersFails_Swallowed ==
    /\ drv_pc = "fetch"
    /\ raised_by' = "listing"
    /\ drv_pc' = "filter"
    /\ UNCHANGED <<historyVars, triggerVars, writerVars, timeVars, pipeVars, classVars, category, notification_state_dict, send_result, tm_pc,
                   drv_idx, total_users, user_email, email_tasks, push_tasks, skipped_timing,
                   skipped_no_channel, sync_status, email_unsubscribed, email_result,
                   push_result, stats>>

\* STEP 1 raising: logged and re-raised
ListUsersFails ==
    /\ drv_pc = "fetch"
    /\ raised_by' = "listing"
    /\ drv_pc' = "raised"
    /\ UNCHANGED <<historyVars, triggerVars, writerVars, timeVars, pipeVars, classVars, category, notification_state_dict, send_result, tm_pc,
                   drv_idx, total_users, user_email, email_tasks, push_tasks, skipped_timing,
                   skipped_no_channel, sync_status, email_unsubscribed, email_result,
                   push_result, stats>>

\* the documents the runs meet: one that gets an email, one that gets a push,
\* one held back by the timing check, one without a channel, and one whose
\* classification raises
RunUserInputs(now) ==
    LET doc(perm, unsub, last, created) ==
            [notificationPermissionStatus |-> perm, fcmToken |-> "valid_token",
             email_unsubscribed |-> unsub, lastActivityAt |-> last, createdAt |-> created]
        old == [kind |-> "aware", t |-> now - 30 * 24]
        recent == [kind |-> "aware", t |-> now - 1]
        never == [kind |-> "none", t |-> 0]
        quiet == [read |-> [kind |-> "valid", field |-> "int", unreadCount |-> 0],
                  nsd |-> NotificationStateDefaults, em |-> "addr"]
        waiting == [quiet EXCEPT !.nsd = [kind |-> "valid", notification_count |-> 1,
                                          last_notification_at |-> [kind |-> "none", t |-> 0]]]
    IN {[ud |-> doc("denied", "False", never, old), sur |-> quiet],
        [ud |-> doc("granted", "True", recent, old), sur |-> quiet],
        [ud |-> doc("granted", "True", recent, old), sur |-> waiting],
        [ud |-> doc("denied", "True", recent, old), sur |-> quiet],
        [ud |-> doc("granted", "True", [kind |-> "naive", t |-> now - 30 * 24], old),
         sur |-> quiet]}

\* the document of user u as STEP 1 reads it, after STEP 0
Listed(ud, u) ==
    IF u \in email_unsubscribed THEN [ud EXCEPT !.email_unsubscribed = "True"] ELSE ud

\* STEP 2, one iteration, in a run
RunFilterUser ==
    /\ drv_pc = "filter"
    /\ drv_idx < total_users
    /\ \E in \in RunUserInputs(cl_now) : FilterStep(Listed(in.ud, drv_idx + 1), in.sur)
    /\ raised_by' = IF drv_pc' = "raised" THEN "classification" ELSE raised_by
    /\ UNCHANGED <<historyVars, triggerVars, writerVars, timeVars, pipeVars, cl_pc, cl_now, tm_pc, total_users, sync_status,
                   email_unsubscribed, email_result, push_result, stats>>

\* the two channel steps, in the order the driver takes them
StepTasks(ch) == IF ch = "email" THEN email_tasks ELSE push_tasks
StepBefore(ch) == IF ch = "email" THEN "done" ELSE "email_over"
StepDuring(ch) == IF ch = "email" THEN "email" ELSE "push"
StepAfter(ch) == IF ch = "email" THEN "email_over" ELSE "push_over"

\* STEP 3a / 3b: generate_*_in_parallel is called with the channel's task list
StartChannelStep(ch) ==
    /\ drv_pc = StepBefore(ch)
    /\ StepTasks(ch) # <<>>
    /\ drv_pc' = StepDuring(ch)
    /\ channel' = ch
    /\ user_tasks' = StepTasks(ch)
    /\ batch_size' = IF ch = "email" THEN EMAIL_BATCH_SIZE ELSE PUSH_BATCH_SIZE
    /\ max_workers' = IF ch = "email" THEN EMAIL_MAX_WORKERS ELSE PUSH_MAX_WORKERS
    /\ pc' = "batches"
    /\ batch_idx' = 1
    /\ unit' = [u \in Users |-> "pending"]
    /\ successful_items' = <<>>
    /\ failed_generations' = <<>>
    /\ chunk_idx' = 0
    /\ all_results' = <<>>
    /\ all_successful' = <<>>
    /\ all_failed' = <<>>
    /\ result' = <<>>
    /\ outcome' = [u \in Users |-> "none"]
    /\ UNCHANGED <<historyVars, triggerVars, writerVars, timeVars, classVars, runVars, emails, chat_messages, chat_threads, notification_state,
                   clock, next_id, write_log, generation_calls, category,
                   notification_state_dict, send_result, tm_pc, drv_idx, total_users,
                   user_email, email_tasks, push_tasks, skipped_timing, skipped_no_channel>>

\* STEP 3a / 3b with an empty task list
SkipChannelStep(ch) ==
    /\ drv_pc = StepBefore(ch)
    /\ StepTasks(ch) = <<>>
    /\ drv_pc' = StepAfter(ch)
    /\ check_execution_time
    /\ UNCHANGED <<historyVars, triggerVars, writerVars, pipeVars, classVars, runVars, category, notification_state_dict, send_result,
                   tm_pc, drv_idx, total_users, user_email, email_tasks, push_tasks,
                   skipped_timing, skipped_no_channel>>

StepResult(ch, r) ==
    /\ email_result' = IF ch = "email" THEN r ELSE email_result
    /\ push_result' = IF ch = "email" THEN push_result ELSE r

\* generate_*_in_parallel returns its BatchGenerationResult
ChannelStepReturns(ch) ==
    /\ drv_pc = StepDuring(ch)
    /\ channel = ch
    /\ pc = "done"
    /\ StepResult(ch, [kind |-> "returned", success_count |-> result.success_count,
                       failure_count |-> result.failure_count])
    /\ pc' = "idle"
    /\ drv_pc' = StepAfter(ch)
    /\ check_execution_time
    /\ UNCHANGED <<historyVars, triggerVars, writerVars, classVars, channel, user_tasks, batch_size, max_workers, batch_idx, unit,
                   successful_items, failed_generations, chunk_idx, all_results,
                   all_successful, all_failed, result, emails, chat_messages, chat_threads,
                   notification_state, clock, next_id, outcome, write_log, generation_calls,
                   category, notification_state_dict, send_result, tm_pc, drv_idx,
                   total_users, user_email, email_tasks, push_tasks, skipped_timing,
                   skipped_no_channel, sync_status, email_unsubscribed, stats, raised_by>>

\* mutant: the exception of a channel step leaves the driver
ChannelStepRaises_Propagates(ch) ==
    /\ drv_pc = StepDuring(ch)
    /\ channel = ch
    /\ pc = "batches"
    /\ batch_idx <= Len(Batches)
    /\ StepResult(ch, [kind |-> "raised", success_count |-> 0, failure_count |-> 0])
    /\ pc' = "idle"
    /\ drv_pc' = "raised"
    /\ raised_by' = ch
    /\ UNCHANGED <<historyVars, triggerVars, writerVars, timeVars, classVars, channel, user_tasks, batch_size, max_workers, batch_idx, unit,
                   successful_items, failed_generations, chunk_idx, all_results,
                   all_successful, all_failed, result, emails, chat_messages, chat_threads,
                   notification_state, clock, next_id, outcome, write_log, generation_calls,
                   category, notification_state_dict, send_result, tm_pc, drv_idx,
                   total_users, user_email, email_tasks, push_tasks, skipped_timing,
                   skipped_no_channel, sync_status, email_unsubscribed, stats>>

\* generate_*_in_parallel raises, the pool of a sub-batch failing to start:
\* the driver's except logs it and the result stays None
ChannelStepRaises(ch) ==
    /\ drv_pc = StepDuring(ch)
    /\ channel = ch
    /\ pc = "batches"
    /\ batch_idx <= Len(Batches)
    /\ StepResult(ch, [kind |-> "raised", success_count |-> 0, failure_count |-> 0])
    /\ pc' = "idle"
    /\ drv_pc' = StepAfter(ch)
    /\ check_execution_time
    /\ UNCHANGED <<historyVars, triggerVars, writerVars, classVars, channel, user_tasks, batch_size, max_workers, batch_idx, unit,
                   successful_items, failed_generations, chunk_idx, all_results,
                   all_successful, all_failed, result, emails, chat_messages, chat_threads,
                   notification_state, clock, next_id, outcome, write_log, generation_calls,
                   category, notification_state_dict, send_result, tm_pc, drv_idx,
                   total_users, user_email, email_tasks, push_tasks, skipped_timing,
                   skipped_no_channel, sync_status, email_unsubscribed, stats, raised_by>>

\* the final statistics are built and returned
EmitStatistics ==
    /\ drv_pc = "push_over"
    /\ stats' = [total_users |-> total_users,
                 emails_sent |-> email_result.success_count,
                 emails_failed |-> email_result.failure_count,
                 pushes_sent |-> push_result.success_count,
                 pushes_failed |-> push_result.failure_count,
                 skipped_timing |-> skipped_timing,
                 skipped_no_channel |-> skipped_no_channel]
    /\ drv_pc' = "returned"
    /\ UNCHANGED <<historyVars, triggerVars, writerVars, timeVars, pipeVars, classVars, category, notification_state_dict, send_result, tm_pc,
                   drv_idx, total_users, user_email, email_tasks, push_tasks, skipped_timing,
                   skipped_no_channel, sync_status, email_unsubscribed, email_result,
                   push_result, raised_by>>

NextRun ==
    \/ BeginRun
    \/ SyncUnsubscribes
    \/ SyncFails
    \/ ListUsers
    \/ ListUsersFails
    \/ RunFilterUser
    \/ FilterDone
    \/ \E ch \in {"email", "chat"} : StartChannelStep(ch)
    \/ \E ch \in {"email", "chat"} : SkipChannelStep(ch)
    \/ Next
    \/ \E ch \in {"email", "chat"} : ChannelStepReturns(ch)
    \/ \E ch \in {"email", "chat"} : ChannelStepRaises(ch)
    \/ EmitStatistics

SpecRun == InitRun /\ [][NextRun]_vars

\* ------------------------------------------------ onboarding welcome email
\* The users whose funnel completes while the run is under way.
OnboardingUsers == {1}

\* create_email_for_sending: emails_ref.add(email_data), an auto-generated id
\* (kept apart from the ids of the writer by its sign)
WelcomeEmailDoc(user_id, now) ==
    [user_id |-> user_id, id |-> 0 - user_id,
     data |-> [to |-> <<"addr", user_id>>,
               subject |-> <<"title", user_id>>,
               body_markdown |-> <<"body", user_id>>,
               state |-> "PLANNED",
               createdAt |-> now],
     update_time |-> now]

\* a welcome email that also counted as a proactive notification
SendOnboardingWelcomeEmail_Counts(user_id) ==
    /\ onboarding = "none"
    /\ emails' = emails \cup {WelcomeEmailDoc(user_id, clock)}
    /\ notification_state' = CountersAfter(notification_state, <<user_id>>, clock)
    /\ onboarding' = "sent"
    /\ UNCHANGED <<historyVars, writerVars, timeVars, classVars, driverVars, runVars, channel,
                   user_tasks, batch_size, max_workers, pc, batch_idx, unit,
                   successful_items, failed_generations, chunk_idx, all_results,
                   all_successful, all_failed, result, chat_messages, chat_threads,
                   clock, next_id, outcome, write_log, generation_calls>>

\* send_onboarding_welcome_email, called by the trigger on the welcome chat
\* message: reads the user document, generates the content, creates one email
\* document; every failure is logged and re-raised, nothing is written
SendOnboardingWelcomeEmail(user_id) ==
    /\ onboarding = "none"
    /\ \E user_doc \in {"exists", "absent", "no_email"}, llm \in {"ok", "raise"} :
          IF user_doc = "exists" /\ llm = "ok"
          THEN /\ emails' = emails \cup {WelcomeEmailDoc(user_id, clock)}
               /\ onboarding' = "sent"
          ELSE /\ emails' = emails
               /\ onboarding' = "raised"
    /\ UNCHANGED <<historyVars, writerVars, timeVars, classVars, driverVars, runVars, channel,
                   user_tasks, batch_size, max_workers, pc, batch_idx, unit,
                   successful_items, failed_generations, chunk_idx, all_results,
                   all_successful, all_failed, result, chat_messages, chat_threads,
                   notification_state, clock, next_id, outcome, write_log,
                   generation_calls>>

\* the run and the trigger, interleaved
NextEngine ==
    \/ NextRun
    \/ \E user_id \in OnboardingUsers : SendOnboardingWelcomeEmail(user_id)

SpecEngine == InitRun /\ [][NextEngine]_vars

\* ------------------------------------------------------------------ one chat chunk
\* One iteration of the loop over chunks of _write_chat_messages_batch, on a
\* chunk in which several messages may go to the same (user, thread).
MaxChunk == 3

ChunkUsers2 == {1, 2}

\* a prepared message of user u for the thread th (None: the default thread)
PreparedMessage(u, th, now) ==
    LET task == [UserChatTask(u, "ACTIVE_USER_PUSH") EXCEPT !.thread_id = th]
    IN [task |-> task, data |-> GenerateSingleChatMessage(task, "exists", "ok", now).data]

PreparedMessages(now) ==
    {PreparedMessage(u, th, now) : u \in ChunkUsers2, th \in {None, "side"}}

ChunkChoices(now) ==
    UNION {[1..n -> PreparedMessages(now)] : n \in 1..MaxChunk}

\* the thread documents before the write: any of the four threads may exist
ThreadChoices ==
    {[u \in Users |-> [t \in ThreadIds |->
          IF <<u, t>> \in present THEN InitialThread(1, "main") ELSE NoThread]] :
       present \in SUBSET (ChunkUsers2 \X ThreadIds)}

InitThreads ==
    /\ channel = "chat"
    /\ user_tasks = <<>>
    /\ batch_size = 1
    /\ max_workers = 1
    /\ pc = "idle"
    /\ batch_idx = 1
    /\ unit = [u \in Users |-> "pending"]
    /\ successful_items = <<>>
    /\ failed_generations = <<>>
    /\ chunk_idx = 0
    /\ all_results = <<>>
    /\ all_successful = <<>>
    /\ all_failed = <<>>
    /\ result = <<>>
    /\ emails = {}
    /\ chat_messages = {}
    /\ chat_threads \in ThreadChoices
    /\ notification_state = [u \in Users |-> InitialNotificationState(u)]
    /\ clock = 1
    /\ next_id = 1
    /\ outcome = [u \in Users |-> "none"]
    /\ write_log = <<>>
    /\ generation_calls = [u \in Users |-> 0]
    /\ ClassIdle
    /\ DriverIdle
    /\ sync_status = "none"
    /\ email_unsubscribed = {}
    /\ email_result = NoResult
    /\ push_result = NoResult
    /\ stats = NoStats
    /\ raised_by = "none"
    /\ elapsed = 0
    /\ slow_execution_alerted = FALSE
    /\ alerts = 0
    /\ notified = NoNotifications
    /\ onboarding = "none"
    /\ wr_pc = "chunk"
    /\ wr_chunk \in ChunkChoices(0)
    /\ wr_exists = {}
    /\ wr_ops = <<>>

\* the pre-scan, the batch and its commit, then the counter update of the
\* chunk's users, which may fail without raising
WriteChatChunk ==
    /\ wr_pc = "chunk"
    /\ LET exists == ThreadExists(wr_chunk, chat_threads)
           ops == ChatOps(wr_chunk, 1, next_id, exists)
       IN /\ OpsCommittable(chat_threads, ops, 1)
          /\ wr_exists' = exists
          /\ wr_ops' = ops
          /\ chat_messages' = chat_messages \cup MessageDocs(ops, clock)
          /\ chat_threads' = ApplyThreadOps(chat_threads, ops, 1)
    /\ all_results' = all_results \o ChatChunkResults(wr_chunk, next_id)
    /\ next_id' = next_id + Len(wr_chunk)
    /\ \E counters_ok \in BOOLEAN :
          notification_state' = IF counters_ok
                                THEN CountersAfter(notification_state,
                                                   ChunkUserIds(wr_chunk), clock + 1)
                                ELSE notification_state
    /\ clock' = clock + 2
    /\ wr_pc' = "committed"
    /\ UNCHANGED <<historyVars, triggerVars, classVars, driverVars, runVars, timeVars, wr_chunk, channel, user_tasks,
                   batch_size, max_workers, pc, batch_idx, unit, successful_items,
                   failed_generations, chunk_idx, all_successful, all_failed, result,
                   emails, outcome, write_log, generation_calls>>

\* the commit of the batch fails: logged and re-raised, nothing is written
WriteChatChunkFails ==
    /\ wr_pc = "chunk"
    /\ LET exists == ThreadExists(wr_chunk, chat_threads)
       IN /\ wr_exists' = exists
          /\ wr_ops' = ChatOps(wr_chunk, 1, next_id, exists)
    /\ next_id' = next_id + Len(wr_chunk)
    /\ clock' = clock + 1
    /\ wr_pc' = "failed"
    /\ UNCHANGED <<historyVars, triggerVars, classVars, driverVars, runVars, timeVars, wr_chunk, channel, user_tasks,
                   batch_size, max_workers, pc, batch_idx, unit, successful_items,
                   failed_generations, chunk_idx, all_results, all_successful, all_failed,
                   result, emails, chat_messages, chat_threads, notification_state,
                   outcome, write_log, generation_calls>>

NextThreads == WriteChatChunk \/ WriteChatChunkFails

SpecThreads == InitThreads /\ [][NextThreads]_vars

\* ------------------------------------------------------------------ properties
\* what the run left in the store and in the result
DocsOf(u) ==
    IF channel = "email" THEN {d \in emails : d.user_id = u}
    ELSE {d \in chat_messages : d.user_id = u}

SuccessfulUsers == {result.successful[k].user_id : k \in 1..Len(result.successful)}
FailedUsers == {result.failed[k].user_id : k \in 1..Len(result.failed)}

LogEntries(op) == {write_log[k] : k \in {j \in 1..Len(write_log) : write_log[j].op = op}}

\* users whose content chunk committed
CommittedUsers == UNION {e.users : e \in {x \in LogEntries("content") : x.ok}}

CountChanged(u) == notification_state[u] # InitialNotificationState(u)

GenerationFailed(u) == outcome[u] \in {"validate", "generate", "unexpected", "future"}

\* C1: a user's notification_state is touched only by a counter batch that
\* follows the committed content batch of that user's chunk; a user whose
\* generation failed or whose chunk did not commit keeps the state unchanged.
C1_CountersOnlyAfterCommit ==
    /\ \A k \in 1..Len(write_log) :
         write_log[k].op = "counters" =>
            \E j \in 1..(k - 1) :
               /\ write_log[j].op = "content" /\ write_log[j].ok
               /\ write_log[j].batch = write_log[k].batch
               /\ write_log[j].chunk = write_log[k].chunk
               /\ write_log[j].users = write_log[k].users
    /\ \A u \in Users :
         CountChanged(u) =>
            /\ outcome[u] = "ok"
            /\ DocsOf(u) # {}
            /\ \E e \in LogEntries("counters") : e.ok /\ u \in e.users

C1_Witness ==
    /\ pc = "done"
    /\ \E u \in Users : CountChanged(u)
    /\ \E u \in Users : GenerationFailed(u) /\ ~CountChanged(u)
    /\ \E e \in LogEntries("content") : ~e.ok /\ \A u \in e.users : ~CountChanged(u)

\* C2: when every worker of a sub-batch has finished, in whatever order,
\* _generate_batch holds each task exactly once: in successful when its unit
\* produced content, in failed when it returned a failure or raised.
BatchCollected ==
    /\ pc = "generate"
    /\ \A u \in BatchUsers(batch_idx) : unit[u] = "done"

C2_BatchPartitionsTasks ==
    BatchCollected =>
       /\ Len(successful_items) + Len(failed_generations) = Len(Batches[batch_idx])
       /\ \A u \in BatchUsers(batch_idx) :
            /\ Cardinality({k \in 1..Len(successful_items) :
                              successful_items[k].task.user_id = u})
                 = IF outcome[u] = "ok" THEN 1 ELSE 0
            /\ Cardinality({k \in 1..Len(failed_generations) :
                              failed_generations[k].user_id = u})
                 = IF GenerationFailed(u) THEN 1 ELSE 0

C2_Witness ==
    /\ BatchCollected
    /\ \E u \in BatchUsers(batch_idx) : outcome[u] = "future"
    /\ \E u \in BatchUsers(batch_idx) : outcome[u] = "generate"
    /\ Len(successful_items) >= 1
    /\ Len(failed_generations) >= 2
    /\ failed_generations[1].user_id > failed_generations[2].user_id

\* the content and counter attempts of chunk c of sub-batch b
ContentEntry(b, c) == {e \in LogEntries("content") : e.batch = b /\ e.chunk = c}
CountersEntry(b, c) == {e \in LogEntries("counters") : e.batch = b /\ e.chunk = c}

\* a write call whose first two chunks committed and whose third did not
ThirdChunkFailed(b) ==
    /\ \E e \in ContentEntry(b, 1) : e.ok
    /\ \E e \in ContentEntry(b, 2) : e.ok
    /\ \E e \in ContentEntry(b, 3) : ~e.ok

ChunkUsers(b, c) == UNION {e.users : e \in ContentEntry(b, c)}

CountOf(u) == notification_state[u].notification_count
InitialCountOf(u) == InitialNotificationState(u).notification_count

\* C3 as stated: every user of the two committed chunks is incremented exactly once.
C3_Original ==
    pc = "done" =>
       \A b \in 1..Len(Batches) :
          ThirdChunkFailed(b) =>
             /\ \A u \in ChunkUsers(b, 1) \cup ChunkUsers(b, 2) :
                  CountOf(u) = InitialCountOf(u) + 1
             /\ \A u \in ChunkUsers(b, 3) : u \in FailedUsers /\ u \notin SuccessfulUsers

\* C3 (amended): when the third chunk fails after two committed, a user of
\* the first two chunks is incremented exactly once if that chunk's counter
\* batch committed and not at all if it did not; the third chunk's users are
\* in the failed list and not in the successful list.
C3_ThirdChunkFails ==
    pc = "done" =>
       \A b \in 1..Len(Batches) :
          ThirdChunkFailed(b) =>
             /\ \A c \in {1, 2} : \A u \in ChunkUsers(b, c) :
                  CountOf(u) = InitialCountOf(u)
                               + IF \E e \in CountersEntry(b, c) : e.ok THEN 1 ELSE 0
             /\ \A u \in ChunkUsers(b, 3) :
                  /\ u \in FailedUsers
                  /\ u \notin SuccessfulUsers
                  /\ CountOf(u) = InitialCountOf(u)

C3_Witness ==
    /\ pc = "done"
    /\ \E b \in 1..Len(Batches) :
         /\ ThirdChunkFailed(b)
         /\ \A c \in {1, 2} : \E e \in CountersEntry(b, c) : e.ok
         /\ \A u \in ChunkUsers(b, 1) \cup ChunkUsers(b, 2) :
              CountOf(u) = InitialCountOf(u) + 1

\* C4: in the returned result a task is successful exactly when its content
\* document was committed.
C4_SuccessfulIffCommitted ==
    pc = "done" =>
       \A u \in 1..Len(user_tasks) : u \in SuccessfulUsers <=> DocsOf(u) # {}

\* C5: every generated item has its content write attempted, also when an
\* earlier chunk of the same write call failed to commit.
C5_EveryChunkAttempted ==
    pc = "done" =>
       \A u \in 1..Len(user_tasks) :
          outcome[u] = "ok" => \E e \in LogEntries("content") : u \in e.users

\* C6: the users of a chunk whose counter batch failed stay successful, with
\* their one content document, and the later chunks are still written.
C6_CounterFailureKeepsSuccess ==
    pc = "done" =>
       \A e \in LogEntries("counters") :
          ~e.ok =>
             /\ \A u \in e.users : u \in SuccessfulUsers /\ Cardinality(DocsOf(u)) = 1
             /\ \A u \in 1..Len(user_tasks) :
                  (outcome[u] = "ok" /\ (u - 1) \div batch_size + 1 > e.batch)
                     => \E x \in LogEntries("content") : u \in x.users

\* C7: every item of a committed chunk has exactly one document in the store,
\* holding the task's address and the generated title and body (email), or
\* the generated message under the task's thread, "main" when it names none (chat).
C7_CommittedContentRoundTrip ==
    \A u \in CommittedUsers :
       IF channel = "email"
       THEN \E d \in emails :
               /\ DocsOf(u) = {d}
               /\ d.data.to = TaskOf(u).user_email
               /\ d.data.subject = EmailContent(u).title
               /\ d.data.body_markdown = EmailContent(u).body
       ELSE \E d \in chat_messages :
               /\ DocsOf(u) = {d}
               /\ d.data.content = <<[type |-> "text", text |-> ChatContent(u).message]>>
               /\ d.thread_id = IF TaskOf(u).thread_id = None THEN "main"
                                ELSE TaskOf(u).thread_id
               /\ chat_threads[u][d.thread_id].exists

C7_Witness ==
    /\ pc = "done"
    /\ channel = "chat"
    /\ \E u \in CommittedUsers : TaskOf(u).thread_id = None
    /\ \E u \in CommittedUsers : TaskOf(u).thread_id = "side"

\* C8: a user of a committed counter batch has notification_count one above
\* its value before the run and last_notification_at at the time of that
\* batch, not earlier than the commit of the user's document; no user has
\* one of the two fields changed without the other.
C8_CounterIncrementedOnce ==
    /\ \A e \in LogEntries("counters") :
         e.ok => \A u \in e.users :
            /\ CountOf(u) = InitialCountOf(u) + 1
            /\ notification_state[u].last_notification_at = e.time
            /\ \A d \in DocsOf(u) : d.update_time <= notification_state[u].last_notification_at
    /\ \A u \in Users :
         (CountOf(u) = InitialCountOf(u))
            <=> (notification_state[u].last_notification_at
                    = InitialNotificationState(u).last_notification_at)

C8_Witness ==
    \E e \in LogEntries("counters") :
       /\ e.ok
       /\ \E u \in e.users : InitialCountOf(u) >= 1 /\ CountOf(u) = InitialCountOf(u) + 1

\* C9: determine_user_category ends by returning one of the six categories
\* or None, for every user record and every unread-count read.
C9_ClassifierTotal ==
    cl_pc = "done" =>
       /\ cl_result.kind = "return"
       /\ cl_result.category \in UserCategory \cup {None}

\* C10: INACTIVE_USER_EMAIL is returned exactly when the unread count is
\* positive, the last activity is more than the inactivity threshold ago and
\* the user is not unsubscribed from email, whether or not push is available.
InactiveEmailCondition ==
    /\ get_unread_count(thread_read).kind = "int"
    /\ get_unread_count(thread_read).n > 0
    /\ user_data.lastActivityAt.kind \in {"aware", "naive"}
    /\ cl_now - user_data.lastActivityAt.t > INACTIVE_DAYS * 24
    /\ user_data.email_unsubscribed \in {"False", "missing"}

C10_InactiveEmailIff ==
    cl_pc = "done" =>
       ((cl_result.kind = "return" /\ cl_result.category = "INACTIVE_USER_EMAIL")
           <=> InactiveEmailCondition)

\* the classifier's conditions, read from the record and the unread count
UnreadPositive ==
    /\ get_unread_count(thread_read).kind = "int"
    /\ get_unread_count(thread_read).n > 0

\* the stored time of an event lies more than h hours back
OlderThan(ts, h) == ts.kind \in {"aware", "naive"} /\ cl_now - ts.t > h

InactiveBeyondThreshold == OlderThan(user_data.lastActivityAt, INACTIVE_DAYS * 24)

\* C11: an inactive user with unread messages, push available and email
\* unsubscribed is classified None.
C11_InactivePushOnlySkipped ==
    (/\ cl_pc = "done"
     /\ UnreadPositive
     /\ InactiveBeyondThreshold
     /\ has_push(user_data)
     /\ ~has_email(user_data))
       => cl_result = Returns(None)

\* a record with push ineligible (permission not granted or no device token)
\* and email unsubscribed
NoChannelRecord(ud) ==
    /\ ud.notificationPermissionStatus # "granted" \/ ud.fcmToken \in {None, ""}
    /\ ud.email_unsubscribed = "True"

\* C12: when the driver loop processes a user with push ineligible and email
\* unsubscribed, whatever the other fields are, the category is None, no
\* email task and no push task is created and skipped_no_channel grows by one.
C12_NoChannelNoTask ==
    [][(drv_idx' = drv_idx + 1 /\ NoChannelRecord(user_data'))
          => /\ cl_result' = Returns(None)
             /\ skipped_no_channel' = skipped_no_channel + 1
             /\ skipped_timing' = skipped_timing
             /\ email_tasks' = email_tasks
             /\ push_tasks' = push_tasks
             /\ drv_pc' = "filter"]_vars

C12_Witness ==
    /\ drv_pc = "done"
    /\ drv_idx = 2
    /\ NoChannelRecord(user_data)
    /\ user_data.lastActivityAt.kind = "naive"
    /\ thread_read.kind = "valid" /\ thread_read.unreadCount = 5
    /\ skipped_no_channel = 1
    /\ Len(email_tasks) + Len(push_tasks) = 1

\* C13: a user who never logged in and has a channel is classified
\* EMAIL_ONLY_USER when email is available and NEW_USER_PUSH otherwise.
C13_NeverLoggedIn ==
    (/\ cl_pc = "done"
     /\ user_data.lastActivityAt.kind = "none"
     /\ (has_push(user_data) \/ has_email(user_data)))
       => cl_result = Returns(IF has_email(user_data) THEN "EMAIL_ONLY_USER"
                              ELSE "NEW_USER_PUSH")

\* the category of priorities 4 and 5 for a record registered h hours ago
RegisteredWithin(h) ==
    /\ user_data.createdAt.kind \in {"aware", "naive"}
    /\ cl_now - user_data.createdAt.t <= h

NewOrActiveCategory ==
    IF RegisteredWithin(NEW_USER_DAYS * 24)
    THEN (IF has_push(user_data) THEN "NEW_USER_PUSH" ELSE "NEW_USER_EMAIL")
    ELSE (IF has_push(user_data) THEN "ACTIVE_USER_PUSH" ELSE "ACTIVE_USER_EMAIL")

\* C14: a user who has logged in, has a channel and is not caught by the
\* inactive override is NEW_USER_* when registered within 14 days and
\* ACTIVE_USER_* otherwise, the *_PUSH variant exactly when push is available.
C14_NewOrActive ==
    (/\ cl_pc = "done"
     /\ user_data.lastActivityAt.kind # "none"
     /\ (has_push(user_data) \/ has_email(user_data))
     /\ ~(UnreadPositive /\ InactiveBeyondThreshold))
       => cl_result = Returns(NewOrActiveCategory)

\* what the timing check was given
StateCount == ParsedNotificationState(notification_state_dict).notification_count
LastNotificationAt == ParsedNotificationState(notification_state_dict).last_notification_at

\* the timestamp the elapsed time is measured from
MeasuredFrom == IF StateCount = 0 THEN user_data.createdAt ELSE LastNotificationAt

RequiredInterval(cat, count) ==
    CATEGORY_INTERVALS[cat][Min(count, Len(CATEGORY_INTERVALS[cat]) - 1) + 1]

\* C15: should_send_notification returns true exactly when the time elapsed
\* since createdAt (count 0) or since last_notification_at (count >= 1) is at
\* least the category's interval at index min(count, len - 1);
\* last_notification_at is absent or as the counter update writes it.
C15_EligibleIffElapsed ==
    (tm_pc = "done" /\ (StateCount = 0 \/ LastNotificationAt.kind \in {"none", "aware"})) =>
       (send_result = "True"
          <=> /\ MeasuredFrom.kind \in {"aware", "naive"}
              /\ cl_now - MeasuredFrom.t >= RequiredInterval(category, StateCount))

\* C16: with notification_count > 0 and no last_notification_at the result
\* is not eligible, for every category and every createdAt.
C16_NoTimestampNotEligible ==
    (tm_pc = "done" /\ StateCount > 0 /\ LastNotificationAt.kind = "none")
       => send_result = "False"

C16_Witness ==
    /\ tm_pc = "done"
    /\ StateCount > 0
    /\ LastNotificationAt.kind = "none"
    /\ user_data.createdAt.kind = "aware"
    /\ cl_now - user_data.createdAt.t >= RequiredInterval(category, StateCount)
    /\ send_result = "False"

\* the wait of EMAIL_ONLY_USER before the notification after the count-th
EmailOnlyWait(count) ==
    IF count = 1 THEN 6
    ELSE IF count = 2 THEN 24
    ELSE IF count = 3 THEN 48
    ELSE 7 * 24

\* C17: for EMAIL_ONLY_USER, with last_notification_at as the counter update
\* writes it, the user is eligible exactly when 6h (count 1), 24h (count 2),
\* 48h (count 3) or 7 days (count >= 4) have passed since the last notification.
C17_EmailOnlySchedule ==
    (/\ tm_pc = "done"
     /\ category = "EMAIL_ONLY_USER"
     /\ StateCount >= 1
     /\ LastNotificationAt.kind = "aware")
       => send_result = IF cl_now - LastNotificationAt.t >= EmailOnlyWait(StateCount)
                        THEN "True" ELSE "False"

C17_Witness ==
    /\ tm_pc = "done"
    /\ category = "EMAIL_ONLY_USER"
    /\ LastNotificationAt.kind = "aware"
    /\ \/ StateCount = 3 /\ cl_now - LastNotificationAt.t = 49 /\ send_result = "True"
       \/ StateCount = 8 /\ cl_now - LastNotificationAt.t = 72 /\ send_result = "False"

\* C18: INACTIVE_USER_EMAIL with count 1 is eligible 13 hours after the last
\* notification (second interval 12 hours).
C18_InactiveSecondInterval ==
    (/\ tm_pc = "done"
     /\ category = "INACTIVE_USER_EMAIL"
     /\ StateCount = 1
     /\ LastNotificationAt.kind = "aware")
       => (send_result = "True" <=> cl_now - LastNotificationAt.t >= 12)

\* C19: the push categories with count 2 are eligible only when at least 12
\* hours have passed since the last notification.
C19_PushThirdInterval ==
    (/\ tm_pc = "done"
     /\ category \in PushCategories
     /\ StateCount = 2
     /\ LastNotificationAt.kind = "aware")
       => (send_result = "True" => cl_now - LastNotificationAt.t >= 12)

\* C20: a user with unread messages, email available and last activity more
\* than 6 days ago is classified INACTIVE_USER_EMAIL.
C20_InactiveAfterSixDays ==
    (/\ cl_pc = "done"
     /\ UnreadPositive
     /\ has_email(user_data)
     /\ user_data.lastActivityAt.kind = "aware"
     /\ cl_now - user_data.lastActivityAt.t > 6 * 24)
       => cl_result = Returns("INACTIVE_USER_EMAIL")

\* ------------------------------------------------------------------ units
\* the address a task or a failure record carries
AddressOf(r) == IF channel = "email" THEN r.user_email ELSE r.fcm_token

FailureRecords == Range(failed_generations) \cup Range(all_failed)

SameIdentity(f, task) ==
    /\ f.user_id = task.user_id
    /\ AddressOf(f) = AddressOf(task)
    /\ f.scenario = task.scenario

\* C21: the per-user generation unit never raises to its caller: whichever step
\* fails (the existence check, the content generation, the payload assembly),
\* the unit returns a failure record that carries the task's user_id, its
\* address or token and its scenario together with an error message; a unit
\* whose steps all succeed returns the generated item.
C21_UnitNeverRaises ==
    \A u \in TaskUsers :
        /\ outcome[u] \in {"validate", "generate", "unexpected"} =>
              \E f \in FailureRecords :
                 SameIdentity(f, TaskOf(u)) /\ f.error_message = outcome[u]
        /\ (unit[u] = "done" /\ outcome[u] # "future") =>
              outcome[u] \in {"ok", "validate", "generate", "unexpected"}

C21_Witness ==
    /\ pc = "done"
    /\ channel = "email"
    /\ \E u, v, w \in TaskUsers :
          outcome[u] = "validate" /\ outcome[v] = "generate" /\ outcome[w] = "unexpected"

\* C22: the existence check precedes the generation call: a unit whose user
\* record is absent, or whose existence read fails, ends in a failure record
\* and the generation collaborator was not invoked for its task.
C22_NoGenerationWithoutUser ==
    \A u \in TaskUsers :
        outcome[u] = "validate" =>
            /\ generation_calls[u] = 0
            /\ \E f \in FailureRecords : SameIdentity(f, TaskOf(u))

C22_Witness ==
    /\ pc = "done"
    /\ \E u, v \in TaskUsers :
          /\ outcome[u] = "validate" /\ generation_calls[u] = 0
          /\ outcome[v] = "ok" /\ generation_calls[v] = 1

ContentAttempts(id) ==
    Cardinality({k \in 1..Len(write_log) :
                    write_log[k].op = "content" /\ id \in write_log[k].users})

\* C23: within one run the generation collaborator is invoked at most once per
\* task and a task's content write is attempted at most once: nothing that
\* failed is generated or written again.
C23_AtMostOnce ==
    \A u \in TaskUsers :
        /\ generation_calls[u] <= 1
        /\ ContentAttempts(u) <= 1

C23_Witness ==
    /\ pc = "done"
    /\ \E u, v \in TaskUsers :
          /\ outcome[u] = "generate" /\ generation_calls[u] = 1
          /\ outcome[v] = "ok" /\ ContentAttempts(v) = 1
          /\ \E k \in 1..Len(write_log) :
                write_log[k].op = "content" /\ ~write_log[k].ok
                    /\ v \in write_log[k].users

\* ------------------------------------------------------------------ pool
InFlight == {u \in Users : unit[u] = "running"}

Submitted == {u \in Users : unit[u] \in {"queued", "running"}}

\* the write call of every sub-batch before b is over: each of its items was
\* handed to the result lists, and every commit it made was followed by its
\* counter update
WritesOverBefore(b) ==
    /\ \A k \in 1..Len(write_log) : write_log[k].batch < b
    /\ \A k \in 1..Len(write_log) :
          (write_log[k].op = "content" /\ write_log[k].ok) =>
              k < Len(write_log) /\ write_log[k + 1].op = "counters"

\* C25: the units in flight never exceed min(max_workers, batch_size), and
\* sub-batches do not overlap: while a unit of a sub-batch is queued or running,
\* every unit of the earlier sub-batches has finished and the write calls of the
\* earlier sub-batches, content commits and counter updates, are over.
C25_BoundedPoolNoOverlap ==
    /\ Cardinality(InFlight) <= Min(max_workers, batch_size)
    /\ \A u \in Submitted :
          /\ pc = "generate"
          /\ u \in BatchUsers(batch_idx)
          /\ \A b \in 1..(batch_idx - 1) : \A v \in BatchUsers(b) : unit[v] = "done"
          /\ WritesOverBefore(batch_idx)

C25_Witness ==
    /\ batch_idx = 2
    /\ max_workers = 2
    /\ batch_size = 2
    /\ Cardinality({u \in Users : unit[u] = "running"}) = 1
    /\ \E k \in 1..Len(write_log) : write_log[k].op = "counters" /\ write_log[k].batch = 1

storeVars == <<emails, chat_messages, chat_threads, notification_state>>

\* C26: generation workers never mutate the store: a step in which a unit
\* starts or ends leaves the store alone, and every store write, content batch
\* or counter batch, committed or failing, is made while no unit is running.
C26_WorkersOnlyRead ==
    [][/\ unit' # unit => (storeVars' = storeVars /\ write_log' = write_log)
       /\ (storeVars' # storeVars \/ write_log' # write_log) =>
             (InFlight = {} /\ Submitted = {} /\ pc \in {"write", "counters"})]_vars

C26_Witness ==
    /\ pc = "done"
    /\ emails # {}
    /\ \E u \in Users : notification_state[u] # InitialNotificationState(u)
    /\ \E u \in Users : outcome[u] = "validate"

\* ------------------------------------------------------------------ phases
TaskUsersOf(tasks) == {tasks[k].user_id : k \in 1..Len(tasks)}

\* something of the generation phase has happened
GenerationStarted ==
    \/ pc # "idle"
    \/ write_log # <<>>
    \/ \E u \in Users : generation_calls[u] > 0 \/ unit[u] # "pending"

\* the push step has started generating or writing
PushStarted ==
    \/ channel = "chat" /\ pc # "idle"
    \/ \E u \in TaskUsersOf(push_tasks) :
          generation_calls[u] > 0 \/ ContentAttempts(u) > 0

\* generate_*_in_parallel has returned or raised for the channel, or was not
\* called because the channel has no task
StepOver(tasks, r) == tasks = <<>> \/ r.kind \in {"returned", "raised"}

\* no committed content chunk is waiting for its counter update
NoCounterPending ==
    \A k \in 1..Len(write_log) :
        (write_log[k].op = "content" /\ write_log[k].ok) =>
            k < Len(write_log) /\ write_log[k + 1].op = "counters"

\* the writes of the email step all precede the writes of the push step
EmailWritesFirst ==
    \A i, j \in 1..Len(write_log) :
        (write_log[i].users \subseteq TaskUsersOf(push_tasks)
            /\ write_log[j].users \subseteq TaskUsersOf(email_tasks)) => j < i

\* C24: a run goes through its phases in order: the classification and timing
\* filtering of all users is complete before any generation starts, the email
\* step (generation, content writes, counter updates) is over before the push
\* step generates anything, and the statistics are emitted only when the push
\* step, its writes and its counter updates are over.
C24_PhasesInOrder ==
    /\ GenerationStarted =>
          /\ drv_pc \in {"email", "email_over", "push", "push_over", "returned"}
          /\ drv_idx = total_users
    /\ PushStarted =>
          /\ drv_pc \in {"push", "push_over", "returned"}
          /\ StepOver(email_tasks, email_result)
          /\ drv_pc = "push" => channel = "chat"
    /\ EmailWritesFirst
    /\ drv_pc = "returned" =>
          /\ StepOver(email_tasks, email_result)
          /\ StepOver(push_tasks, push_result)
          /\ pc = "idle"
          /\ InFlight = {}
          /\ NoCounterPending

C24_Witness ==
    /\ drv_pc = "returned"
    /\ total_users = 2
    /\ email_result.kind = "returned" /\ email_result.success_count = 1
    /\ push_result.kind = "returned" /\ push_result.success_count = 1
    /\ Len(write_log) = 4

StepAccounted(tasks, r) ==
    r.kind = "returned" => r.success_count + r.failure_count = Len(tasks)

\* C28: a raising unsubscribe sync is not propagated: the run goes on to list
\* the users, and when it ends by an exception the exception is that of the
\* listing or of the classification, never that of the sync; a run that
\* returns has called both channel steps on their task lists and returns
\* the statistics.
C28_SyncFailureNotPropagated ==
    sync_status = "failed" =>
        /\ raised_by \in {"none", "listing", "classification"}
        /\ drv_pc = "raised" => raised_by \in {"listing", "classification"}
        /\ drv_pc = "returned" =>
              /\ StepOver(email_tasks, email_result)
              /\ StepOver(push_tasks, push_result)
              /\ stats.total_users = total_users
              /\ stats.emails_sent = email_result.success_count
              /\ stats.pushes_sent = push_result.success_count

C28_Witness ==
    /\ sync_status = "failed"
    /\ drv_pc = "returned"
    /\ emails # {}
    /\ chat_messages # {}
    /\ stats.emails_sent = 1
    /\ stats.pushes_sent = 1

\* C29: a raising email step is not propagated: the run does not end by an
\* exception, the push step is still called on its task list, its messages
\* are generated and written, and the statistics are returned.
C29_EmailFailureNotPropagated ==
    email_result.kind = "raised" =>
        /\ drv_pc \in {"email_over", "push", "push_over", "returned"}
        /\ raised_by = "none"
        /\ drv_pc = "returned" =>
              /\ StepOver(push_tasks, push_result)
              /\ StepAccounted(push_tasks, push_result)
              /\ stats.pushes_sent = push_result.success_count
              /\ stats.emails_sent = 0

C29_Witness ==
    /\ email_result.kind = "raised"
    /\ drv_pc = "returned"
    /\ push_result.kind = "returned"
    /\ chat_messages # {}
    /\ stats.pushes_sent = 1

\* the content documents, threads and counters are as before the run
ContentUntouched ==
    /\ emails = {}
    /\ chat_messages = {}
    /\ chat_threads = [u \in Users |-> [t \in ThreadIds |-> InitialThread(u, t)]]
    /\ notification_state = [u \in Users |-> InitialNotificationState(u)]
    /\ write_log = <<>>

\* C30 as stated: when the listing of the users fails the run raises, and it
\* has written nothing to the store: no user field, no content document, no
\* counter.
C30_Original ==
    raised_by = "listing" =>
        /\ drv_pc = "raised"
        /\ ContentUntouched
        /\ email_unsubscribed = {}

\* C30: when the listing of the users fails the run raises and aborts, having
\* written no content document, no thread and no counter and having
\* classified and generated nothing; the only user field it may have written
\* is email_unsubscribed, set by the unsubscribe sync that ran before the
\* listing.
C30_ListingFailureAborts ==
    raised_by = "listing" =>
        /\ drv_pc = "raised"
        /\ ContentUntouched
        /\ ~GenerationStarted
        /\ drv_idx = 0
        /\ email_tasks = <<>> /\ push_tasks = <<>>

C30_Witness ==
    /\ raised_by = "listing"
    /\ drv_pc = "raised"
    /\ sync_status = "ok"
    /\ email_unsubscribed # {}

OpsCeiling(ch) == IF ch = "email" THEN EMAIL_CHUNK_SIZE ELSE 2 * CHAT_CHUNK_SIZE

\* C32: every batch the writer is about to commit, content batch or
\* counter-update batch, holds at most the store's ceiling of operations,
\* whatever the number of items and whichever threads exist.
C32_BatchWithinCeiling ==
    /\ pc = "write" =>
          Len(ContentOps(channel, CurrentChunk, next_id, chat_threads)) <= OpsCeiling(channel)
    /\ pc = "counters" => Len(ChunkUserIds(CurrentChunk)) <= OpsCeiling(channel)

\* ------------------------------------------------------------------ thread creation
ThreadOpKey(o) == <<o.user_id, o.thread_id>>

ThreadCreations(key) ==
    {i \in 1..Len(wr_ops) : wr_ops[i].op = "set_thread" /\ ThreadOpKey(wr_ops[i]) = key}

ChunkKeys ==
    {<<wr_chunk[k].task.user_id, ResolveThreadId(wr_chunk[k].task)>> : k \in 1..Len(wr_chunk)}

\* C33: in the batch of a chat chunk a thread creation is there only for a
\* (user, thread) the pre-scan found missing, once per such (user, thread) of
\* the chunk, and before every message and metadata update of that thread; a
\* thread the pre-scan found is not created again: after the commit it still
\* has its creation time and has gained exactly the chunk's messages.
C33_ThreadCreatedOnceWhenMissing ==
    wr_pc \in {"committed", "failed"} =>
        /\ \A key \in ChunkKeys :
              /\ Cardinality(ThreadCreations(key)) = IF key \in wr_exists THEN 0 ELSE 1
              /\ \A i \in ThreadCreations(key) : \A j \in 1..Len(wr_ops) :
                    (ThreadOpKey(wr_ops[j]) = key /\ j # i) => i < j
        /\ \A i \in 1..Len(wr_ops) : ThreadOpKey(wr_ops[i]) \in ChunkKeys
        /\ wr_pc = "committed" =>
              \A key \in ChunkKeys :
                 LET th == chat_threads[key[1]][key[2]]
                     n == Cardinality({k \in 1..Len(wr_chunk) :
                             wr_chunk[k].task.user_id = key[1]
                                 /\ ResolveThreadId(wr_chunk[k].task) = key[2]})
                 IN /\ th.exists
                    /\ key \in wr_exists =>
                          /\ th.createdAt = InitialThread(1, "main").createdAt
                          /\ th.messageCount = InitialThread(1, "main").messageCount + n
                    /\ key \notin wr_exists => th.messageCount = n

C33_Witness ==
    /\ wr_pc = "committed"
    /\ Len(wr_chunk) = 3
    /\ Cardinality(ChunkKeys) = 2
    /\ \E key \in ChunkKeys : key \in wr_exists /\ chat_threads[key[1]][key[2]].messageCount = 3
    /\ \E key \in ChunkKeys : key \notin wr_exists /\ Cardinality(ThreadCreations(key)) = 1
    /\ Len(wr_ops) = 7

\* ------------------------------------------------ notification_state frame
\* C34: the only step that changes a user's notification_state is the
\* writer's counter update that directly follows a committed content write,
\* and it changes only users of that chunk, raising their count and stamping
\* the time. Synchronisation, classification, timing filtering, generation,
\* content writes and the onboarding welcome email (which creates one email
\* document) leave notification_count and last_notification_at as they were,
\* and no step removes or lowers them.
C34_OnlyCounterUpdateWritesState ==
    [][/\ notification_state' # notification_state =>
             /\ pc = "counters"
             /\ Len(write_log) > 0
             /\ write_log[Len(write_log)].op = "content"
             /\ write_log[Len(write_log)].ok
             /\ onboarding' = onboarding
             /\ drv_pc' = drv_pc
             /\ emails' = emails
             /\ chat_messages' = chat_messages
             /\ \A u \in DOMAIN notification_state :
                   notification_state'[u] # notification_state[u] =>
                      /\ u \in write_log[Len(write_log)].users
                      /\ notification_state'[u].notification_count
                            > notification_state[u].notification_count
                      /\ notification_state'[u].last_notification_at = clock
       /\ DOMAIN notification_state' = DOMAIN notification_state
       /\ \A u \in DOMAIN notification_state :
             /\ notification_state'[u].notification_count
                   >= notification_state[u].notification_count
             /\ notification_state[u].last_notification_at # NoTime =>
                   notification_state'[u].last_notification_at # NoTime
       /\ onboarding' # onboarding =>
             /\ notification_state' = notification_state
             /\ Cardinality(emails') <= Cardinality(emails) + 1]_vars

C34_Witness ==
    /\ onboarding = "sent"
    /\ drv_pc = "returned"
    /\ \E user_id \in OnboardingUsers :
          /\ \E d \in emails : d.user_id = user_id /\ d.id < 0
          /\ notification_state[user_id] = InitialNotificationState(user_id)
    /\ \E u \in Users : notification_state[u] # InitialNotificationState(u)

\* ------------------------------------------------ one notification per run
\* the tasks of user u in the two lists of the run
TasksOfUser(u) ==
    {<<"email", k>> : k \in {i \in 1..Len(email_tasks) : email_tasks[i].user_id = u}}
        \cup {<<"push", k>> : k \in {i \in 1..Len(push_tasks) : push_tasks[i].user_id = u}}

\* the content documents the store holds for user u
ContentDocsOfUser(u) ==
    {d \in emails : d.user_id = u} \cup {d \in chat_messages : d.user_id = u}

\* C35: in one run a user gets at most one task, an email task carries one
\* of the four email categories and a push task one of the two push
\* categories, and therefore the run raises the user's notification_count by
\* at most 1 and creates at most one content document for the user; a user
\* without a task gets neither.
C35_OneTaskOneNotification ==
    /\ \A k \in 1..Len(email_tasks) : email_tasks[k].scenario \in EmailCategories
    /\ \A k \in 1..Len(push_tasks) : push_tasks[k].scenario \in PushCategories
    /\ \A u \in Users :
          /\ Cardinality(TasksOfUser(u)) <= 1
          /\ notification_state[u].notification_count
                <= InitialNotificationState(u).notification_count
                      + Cardinality(TasksOfUser(u))
          /\ Cardinality(ContentDocsOfUser(u)) <= Cardinality(TasksOfUser(u))

C35_Witness ==
    /\ drv_pc = "returned"
    /\ Len(email_tasks) = 1
    /\ Len(push_tasks) = 1
    /\ \A u \in {email_tasks[1].user_id, push_tasks[1].user_id} :
          /\ Cardinality(ContentDocsOfUser(u)) = 1
          /\ notification_state[u].notification_count
                = InitialNotificationState(u).notification_count + 1

\* ------------------------------------------------ categories and generators
\* C36: every task of a category the driver creates is accepted by its
\* channel's generator: a unit whose user exists fails in the generation step
\* only when the collaborator was called and failed, never because the
\* generator has no route for the task's scenario; so with an existing user,
\* a succeeding collaborator and a committing store the task is reported as
\* successful.
C36_DriverTasksAccepted ==
    \A k \in 1..Len(user_tasks) :
        LET u == user_tasks[k].user_id
        IN /\ user_tasks[k].scenario \in ChannelCategories(channel)
           /\ outcome[u] = "generate" => generation_calls[u] > 0

\* ------------------------------------------------ the result of a call
\* how often user u occurs in a list of result records
TimesIn(list, u) == Cardinality({i \in 1..Len(list) : list[i].user_id = u})

\* C37: whatever failed during the call (existence reads, generation, raising
\* units, content commits, counter updates), the result generate_*_in_parallel
\* returns satisfies success_count + failure_count = total_count = number of
\* input tasks, the counts are the lengths of the lists, and every input
\* task's user occurs exactly once, in exactly one of successful and failed.
C37_ResultAccountsForEveryTask ==
    result # <<>> =>
        /\ result.total_count = Len(user_tasks)
        /\ result.success_count + result.failure_count = result.total_count
        /\ result.success_count = Len(result.successful)
        /\ result.failure_count = Len(result.failed)
        /\ \A k \in 1..Len(user_tasks) :
              TimesIn(result.successful, user_tasks[k].user_id)
                 + TimesIn(result.failed, user_tasks[k].user_id) = 1

C37_Witness ==
    /\ result # <<>>
    /\ Len(user_tasks) = 3
    /\ result.success_count = 1
    /\ result.failure_count = 2
    /\ \E e \in LogEntries("content") : ~e.ok
    /\ \E e \in LogEntries("counters") : ~e.ok
    /\ \E u \in Users : outcome[u] = "future"

\* ------------------------------------------------ statistics
\* C38: in the statistics of a run in which no channel step raised, every
\* listed user is in exactly one bucket: total_users = emails_sent +
\* emails_failed + pushes_sent + pushes_failed + skipped_timing +
\* skipped_no_channel.
C38_StatisticsAddUp ==
    (drv_pc = "returned" /\ email_result.kind # "raised" /\ push_result.kind # "raised") =>
        stats.total_users = stats.emails_sent + stats.emails_failed + stats.pushes_sent
                               + stats.pushes_failed + stats.skipped_timing
                               + stats.skipped_no_channel

C38_Witness ==
    /\ drv_pc = "returned"
    /\ email_result.kind = "returned"
    /\ push_result.kind = "none"
    /\ stats.total_users = 2
    /\ stats.emails_failed = 1
    /\ stats.skipped_timing + stats.skipped_no_channel = 1

\* ------------------------------------------------ timing check never raises
\* C39: for every user record, with a valid, absent, unparsable or
\* offset-less createdAt or last_notification_at, should_send_notification
\* returns a boolean, so the loop of STEP 2 is never left by an exception of
\* the timing check.
C39_TimingCheckReturnsBoolean ==
    tm_pc = "done" => send_result \in {"True", "False"}

\* ------------------------------------------------ successive runs, one user
\* The scheduler calls process_notification_orchestration again and again;
\* this follows one user through the runs. Times are whole hours.
MaxRuns == 4

\* hours between the end of one run and the timing check of the next
RunGaps == {1, 6, 24}

\* the categories the user is classified into, one per schedule
RunCategories == {"EMAIL_ONLY_USER", "NEW_USER_PUSH", "INACTIVE_USER_EMAIL"}

\* the user followed: never notified before the first run
FollowedUser == CHOOSE u \in Users : InitialNotificationState(u).notification_count = 0

\* user_data.get('notification_state') as the counter update left it: an int
\* and the ISO string of datetime.now(timezone.utc)
ReadNotificationState(st) ==
    [kind |-> "valid", notification_count |-> st.notification_count,
     last_notification_at |->
        IF st.last_notification_at = NoTime THEN [kind |-> "none", t |-> 0]
        ELSE [kind |-> "aware", t |-> st.last_notification_at]]

InitRuns ==
    /\ PipeIdle
    /\ DriverIdle
    /\ RunIdle
    /\ cl_pc = "idle"
    /\ user_data = [NoUserData EXCEPT !.createdAt = [kind |-> "aware", t |-> ClassifyHour - 30 * 24]]
    /\ thread_read = [kind |-> "absent", field |-> "missing", unreadCount |-> 0]
    /\ cl_now = ClassifyHour
    /\ cl_result = [kind |-> "none", category |-> None]

\* one run, as the followed user sees it: the timing check of STEP 2 on the
\* stored state, then (when eligible) the content commit of the user's chunk
\* and the counter update of that chunk, each of which may fail
ScheduledRun ==
    /\ notified.runs < MaxRuns
    /\ \E d \in RunGaps, c \in RunCategories :
          LET now == cl_now + d
              nsd == ReadNotificationState(notification_state[FollowedUser])
              send == should_send_notification(user_data, nsd, c, now)
              held == /\ notification_state' = notification_state
                      /\ cl_now' = now
                      /\ notified' = [notified EXCEPT !.runs = @ + 1]
          IN /\ category' = c
             /\ notification_state_dict' = nsd
             /\ send_result' = send
             /\ IF send = "True"
                THEN \E delay \in {0, 1}, content_ok \in BOOLEAN, counters_ok \in BOOLEAN :
                        LET sent_at == now + delay
                        IN IF content_ok
                           THEN /\ notification_state' =
                                      IF counters_ok
                                      THEN CountersAfter(notification_state,
                                                         <<FollowedUser>>, sent_at)
                                      ELSE notification_state
                                /\ cl_now' = sent_at
                                /\ notified' =
                                      [runs |-> notified.runs + 1,
                                       sent |-> notified.sent + 1,
                                       last_sent_at |-> sent_at,
                                       all_counted |-> notified.all_counted /\ counters_ok,
                                       counted_before |-> notified.all_counted,
                                       category |-> c,
                                       k |-> nsd.notification_count,
                                       gap |-> IF notified.last_sent_at = NoTime THEN 0
                                               ELSE sent_at - notified.last_sent_at,
                                       required |-> RequiredInterval(c, nsd.notification_count)]
                           ELSE held
                ELSE held
    /\ UNCHANGED <<triggerVars, writerVars, timeVars, runVars, channel, user_tasks,
                   batch_size, max_workers, pc, batch_idx, unit, successful_items,
                   failed_generations, chunk_idx, all_results, all_successful, all_failed,
                   result, emails, chat_messages, chat_threads, clock, next_id, outcome,
                   write_log, generation_calls, cl_pc, user_data, thread_read, cl_result,
                   tm_pc, drv_pc, drv_idx, total_users, user_email, email_tasks,
                   push_tasks, skipped_timing, skipped_no_channel>>

NextRuns == ScheduledRun

SpecRuns == InitRuns /\ [][NextRuns]_vars

====
